---- MODULE Spec2Model ----
(***************************************************************************)
(* A model of otel-example-go: the request-metrics middleware, the span     *)
(* helpers, the structured logger and its remote hook, the user            *)
(* repository's span/metric protocol, the database start-up and monitor,   *)
(* telemetry initialisation, the health and user handlers and the          *)
(* shutdown of the process.                                                *)
(*                                                                         *)
(* The module holds several specifications over one set of variables; a    *)
(* subsystem a specification does not exercise stays in its idle state.    *)
(*   SpecStatusClass   getStatusClass as a pure function                   *)
(*   SpecMetrics       concurrent requests through MetricsMiddleware       *)
(*   SpecTrace         one request using the span helpers and the logger   *)
(*   SpecLog           the Logger's entry constructors                     *)
(*   SpecRepo          UserRepository operations                           *)
(*   SpecStartup       NewConnectionWithDeps as main calls it              *)
(*   SpecTelemetry     InitTelemetry and the combined Shutdown             *)
(*   SpecMonitor       the connection-pool monitor goroutine               *)
(*   SpecHook          the loggers of the process and OtelHook             *)
(*   SpecRequestLog    Logger.Middleware's choice of severity              *)
(*   SpecHealth        GET /health, /ready and /metrics                    *)
(*   SpecGlobalLogger  goroutines using the process-wide logger            *)
(*   SpecRecord        the recording methods of a DB with nil instruments  *)
(*   SpecShutdown      main's deferred calls against the monitor           *)
(*   SpecCreateUser    concurrent POST /api/users                          *)
(*   SpecGetUsers      the pagination arithmetic of GET /api/users         *)
(***************************************************************************)
EXTENDS Integers, Sequences, FiniteSets, TLC

\* ------------------------------------------------------------------ bounds
\* number of requests the server handles concurrently in SpecMetrics
NumReqs == 2
\* status codes examined by SpecStatusClass: -MaxStatusCode .. MaxStatusCode
MaxStatusCode == 700
\* repository operations the handlers call one after another
MaxCalls == 2
\* calls of TelemetryProvider.Shutdown on one provider
MaxShutdowns == 2
\* ticks the monitor's ticker fires
MaxTicks == 3
\* hooks added to the global logger
MaxHooks == 2
\* records the service logs in SpecHook
MaxRecords == 2
\* errors a handler attaches to one gin.Context (c.Error)
MaxErrors == 1
\* log entries one request's handler emits
MaxLogs == 2
\* probes of /health, /ready and /metrics
MaxProbes == 3
\* goroutines that use the process-wide logger
NumCallers == 2
\* loggers NewLogger builds in one run
MaxLoggers == 3
\* POST /api/users requests in flight together
NumCreates == 2
\* width of Go's int in the model of GetUsers (64 in the build); the
\* arithmetic wraps at this width
IntBits == 16

VARIABLES
    scCode, scClass,
    live, tracing,
    pc, req, writer, cErrors, panicked, deferred,
    ctxSpan, spanState, spanStatus, recorded, logs,
    activeRequests, events,
    lgLevel, lgOut,
    stack, rspans, rEnds, rEvents, rCalls,
    dbInstr, stPc, stEnv, stLog, stResult,
    tlPc, tlCfg, tlEnv, tlProv, shutdownFuncs, tlErr, sdIdx, sdCalls, sdErrs,
    sdResult, sdCount,
    monPc, monCtxDone, tickPending, ticker, ticksFired, ticksDropped, pool,
    monCycles, monEvents, monLog, lateTick,
    globalLogger, hkLevel, hkHooks, hkLocal, hkRemote,
    lmLevel, lmOut,
    hcDb, hcResp, hcEvents,
    glGlobal, glMade, glPc, glHooked, glReturned,
    rcLog,
    mainPc, atClose,
    crPc, crEmail, crResp, crRows, crUnique, crCreates,
    guPage, guLimit, guCall

statusVars == <<scCode, scClass>>
logVars == <<lgLevel, lgOut>>
repoVars == <<stack, rspans, rEnds, rEvents, rCalls>>
startVars == <<dbInstr, stPc, stEnv, stLog, stResult>>
telVars == <<tlPc, tlCfg, tlEnv, tlProv, shutdownFuncs, tlErr, sdIdx, sdCalls, sdErrs,
             sdResult, sdCount>>
httpVars == <<live, tracing, pc, req, writer, cErrors, panicked, deferred,
              ctxSpan, spanState, spanStatus, recorded, logs,
              activeRequests, events>>
monVars == <<monPc, monCtxDone, tickPending, ticker, ticksFired, ticksDropped, pool,
             monCycles, monEvents, monLog, lateTick>>
hookVars == <<globalLogger, hkLevel, hkHooks, hkLocal, hkRemote>>
lmVars == <<lmLevel, lmOut>>
\* the subsystems of the handlers, the request log and the process shutdown
hcVars == <<hcDb, hcResp, hcEvents>>
glVars == <<glGlobal, glMade, glPc, glHooked, glReturned>>
rcVars == <<rcLog>>
mainVars == <<mainPc, atClose>>
crVars == <<crPc, crEmail, crResp, crRows, crUnique, crCreates>>
guVars == <<guPage, guLimit, guCall>>
extVars == <<lmVars, hcVars, glVars, rcVars, mainVars, crVars, guVars>>
coreVars == <<statusVars, httpVars, logVars, repoVars, startVars, telVars, monVars, hookVars>>
vars == <<coreVars, extVars>>
\* everything outside one subsystem
nonLmVars == <<coreVars, hcVars, glVars, rcVars, mainVars, crVars, guVars>>
nonHcVars == <<coreVars, lmVars, glVars, rcVars, mainVars, crVars, guVars>>
nonGlVars == <<coreVars, lmVars, hcVars, rcVars, mainVars, crVars, guVars>>
nonRcVars == <<coreVars, lmVars, hcVars, glVars, mainVars, crVars, guVars>>
\* main's shutdown acts on the monitor's variables as well as its own
nonMainMonVars == <<statusVars, httpVars, logVars, repoVars, startVars, telVars, hookVars,
                    lmVars, hcVars, glVars, rcVars, crVars, guVars>>
nonGuVars == <<coreVars, lmVars, hcVars, glVars, rcVars, mainVars, crVars>>
nonCrVars == <<coreVars, lmVars, hcVars, glVars, rcVars, mainVars, guVars>>
nonHttpVars == <<statusVars, logVars, repoVars, startVars, telVars, monVars, hookVars, extVars>>
nonStatusVars == <<httpVars, logVars, repoVars, startVars, telVars, monVars, hookVars, extVars>>
nonLogVars == <<statusVars, httpVars, repoVars, startVars, telVars, monVars, hookVars, extVars>>
nonRepoVars == <<statusVars, httpVars, logVars, startVars, telVars, monVars, hookVars, extVars>>
nonStartVars == <<statusVars, httpVars, logVars, repoVars, telVars, monVars, hookVars, extVars>>
nonTelVars == <<statusVars, httpVars, logVars, repoVars, startVars, monVars, hookVars, extVars>>
nonMonVars == <<statusVars, httpVars, logVars, repoVars, startVars, telVars, hookVars, extVars>>
nonHookVars == <<statusVars, httpVars, logVars, repoVars, startVars, telVars, monVars, extVars>>

\* ====================================================== getStatusClass
\* telemetry.go:162-175.  The switch is evaluated top to bottom.
getStatusClassAllFallBack(statusCode) ==
    CASE statusCode >= 200 /\ statusCode < 300 -> "2xx"
      [] statusCode >= 300 /\ statusCode < 400 -> "3xx"
      [] statusCode >= 400 /\ statusCode < 500 -> "4xx"
      [] statusCode >= 500 /\ statusCode < 600 -> "5xx"
      [] OTHER -> "1xx"

getStatusClass(statusCode) ==
    CASE statusCode >= 200 /\ statusCode < 300 -> "2xx"
      [] statusCode >= 300 /\ statusCode < 400 -> "3xx"
      [] statusCode >= 400 /\ statusCode < 500 -> "4xx"
      [] statusCode >= 500 -> "5xx"
      [] OTHER -> "1xx"

StatusIdle == scCode = 0 /\ scClass = "none"

StatusInit == scCode \in (0 - MaxStatusCode)..MaxStatusCode /\ scClass = "none"

\* one call getStatusClass(scCode)
Classify ==
    /\ scClass = "none"
    /\ scClass' = getStatusClass(scCode)
    /\ UNCHANGED <<scCode, nonStatusVars>>

\* ====================================================== HTTP pipeline
Reqs == 1..NumReqs
Methods == {"GET", "POST"}
Routes == {"/api/users"}
\* c.Request.ContentLength: no body, or a body of 9 bytes
ContentLengths == {0, 9}
AttrSets == [method : Methods, route : Routes]
SpanKinds == {"root", "custom"}
ErrTypes == {"bind", "public", "private"}

NoReq == [method |-> "", route |-> "", contentLength |-> 0]
\* gin's responseWriter after reset: status 200, size noWritten (-1), no headers
FreshWriter == [status |-> 200, sizeHeader |-> "", size |-> -1]

\* what a handler may leave in c.Writer when it returns: c.JSON(status, body),
\* optionally after c.Header("Content-Length", ...), or nothing written at all
ResponseShapes ==
    { [status |-> 200, sizeHeader |-> "", size |-> 2],
      [status |-> 400, sizeHeader |-> "", size |-> 2],
      [status |-> 500, sizeHeader |-> "", size |-> 2],
      [status |-> 200, sizeHeader |-> "5", size |-> 5],
      [status |-> 200, sizeHeader |-> "abc", size |-> 2],
      FreshWriter }

\* --- attribute sets (telemetry.go:84-87 and 117-120)
commonAttrs(rq) == [method |-> rq.method, route |-> rq.route]

finalAttrs(rq, w) ==
    [method |-> rq.method, route |-> rq.route,
     status_code |-> ToString(w.status),
     status_class |-> getStatusClass(w.status)]

\* metric.Int64UpDownCounter.Add: one atomic addition to the series of attrs
Add(counter, attrs, delta) == [counter EXCEPT ![attrs] = @ + delta]

Event(inst, value, attrs) == [inst |-> inst, value |-> value, attrs |-> attrs]

\* strconv.ParseInt(s, 10, 64) on the header values the model uses
DecimalValue == ("0" :> 0) @@ ("5" :> 5)
ParseInt(s) ==
    IF s \in DOMAIN DecimalValue
    THEN [err |-> FALSE, v |-> DecimalValue[s]]
    ELSE [err |-> TRUE, v |-> 0]

\* telemetry.go:105-114
responseSize(w) ==
    IF w.sizeHeader # ""
    THEN (IF ParseInt(w.sizeHeader).err THEN 0 ELSE ParseInt(w.sizeHeader).v)
    ELSE w.size

\* --- span helpers
IsValid(r) == ctxSpan[r] # "none"
IsRecording(r) == ctxSpan[r] # "none" /\ spanState[r][ctxSpan[r]] = "open"

\* codes.Code ordering used by the SDK's SetStatus: Unset < Error < Ok; a
\* status is replaced only by one of equal or higher rank
StatusRank == [Unset |-> 0, Error |-> 1, Ok |-> 2]
SetStatus(cur, code) == IF StatusRank[cur] > StatusRank[code] THEN cur ELSE code


\* ============================================================ Logger
\* trace and span identifiers as the strings TraceID().String() and
\* SpanID().String() give: distinct per request and per span
TraceID(r) == "trace-" \o ToString(r)
SpanID(r, k) == "span-" \o ToString(r) \o "-" \o k

\* a context.Context as the logger sees it: trace.SpanFromContext(ctx).SpanContext()
Background == [valid |-> FALSE, traceID |-> "", spanID |-> ""]
SpanCtx(r, k) == [valid |-> TRUE, traceID |-> TraceID(r), spanID |-> SpanID(r, k)]

\* logrus.Fields: a finite map from keys to values; nil is the empty map
NilFields == <<>>
\* Entry.WithFields: the entry's data copied, then the new fields stored over it
WithFields(data, fields) ==
    [k \in DOMAIN data \cup DOMAIN fields |->
        IF k \in DOMAIN fields THEN fields[k] ELSE data[k]]

\* Logger.WithTraceContext (logging: lines 51-65)
WithTraceContext(ctx) ==
    IF ctx.valid
    THEN WithFields(WithFields(NilFields, NilFields),
                    ("trace_id" :> ctx.traceID) @@ ("span_id" :> ctx.spanID))
    ELSE WithFields(NilFields, NilFields)

\* Logger.WithGinContext (logging: lines 68-82)
WithGinContext(ctx, rq) ==
    WithFields(WithTraceContext(ctx),
               ("method" :> rq.method) @@ ("path" :> rq.route) @@ ("query" :> "")
               @@ ("user_agent" :> "ua") @@ ("client_ip" :> "ip")
               @@ ("request_id" :> ""))

\* Logger.LogInfo / LogWarn / LogDebug (logging: lines 130-160)
LogInfo(ctx, fields) ==
    IF fields # NilFields
    THEN WithFields(WithTraceContext(ctx), fields)
    ELSE WithTraceContext(ctx)

LogWarn(ctx, fields) ==
    IF fields # NilFields
    THEN WithFields(WithTraceContext(ctx), fields)
    ELSE WithTraceContext(ctx)

LogDebug(ctx, fields) ==
    IF fields # NilFields
    THEN WithFields(WithTraceContext(ctx), fields)
    ELSE WithTraceContext(ctx)

\* Logger.LogError (logging: lines 119-127): WithError stores the key "error"
LogError(ctx, err, fields) ==
    IF fields # NilFields
    THEN WithFields(WithFields(WithTraceContext(ctx), "error" :> err), fields)
    ELSE WithFields(WithTraceContext(ctx), "error" :> err)

\* logrus levels: a logger set to level L emits the entries of rank <= L
LevelRank == [error |-> 2, warn |-> 3, info |-> 4, debug |-> 5]
IsLevelEnabled(loggerLevel, level) == LevelRank[loggerLevel] >= LevelRank[level]

\* NewLogger (logging: lines 19-48): the level LOG_LEVEL selects
EnvLogLevels == {"debug", "info", "warn", "error", "", "verbose"}
NewLoggerLevel(env) ==
    CASE env = "debug" -> "debug"
      [] env = "info" -> "info"
      [] env = "warn" -> "warn"
      [] env = "error" -> "error"
      [] OTHER -> "info"

\* the contexts and field maps callers pass in the model
LogContexts == {Background, SpanCtx(1, "root"), SpanCtx(1, "custom")}
FieldMaps ==
    { NilFields,
      "page" :> "1",
      "trace_id" :> "forged",
      ("span_id" :> "forged") @@ ("page" :> "1") }

LogIdle == lgLevel = "info" /\ lgOut = <<>>

LogInit == (\E env \in EnvLogLevels : lgLevel = NewLoggerLevel(env)) /\ lgOut = <<>>

\* the logger's output after one entry at `level`: which function built the
\* entry, the context and fields it was given, and the data it carries
Emit(fn, level, ctx, fields, data) ==
    IF IsLevelEnabled(lgLevel, level)
    THEN Append(lgOut, [fn |-> fn, level |-> level, ctx |-> ctx,
                        fields |-> fields, data |-> data])
    ELSE lgOut

\* l.WithTraceContext(ctx).Info(msg)
CallWithTraceContext ==
    /\ Len(lgOut) < MaxLogs
    /\ \E ctx \in LogContexts :
           lgOut' = Emit("WithTraceContext", "info", ctx, NilFields,
                         WithTraceContext(ctx))
    /\ UNCHANGED <<lgLevel, nonLogVars>>

\* l.WithGinContext(c).Info(msg)
CallWithGinContext ==
    /\ Len(lgOut) < MaxLogs
    /\ \E ctx \in LogContexts, m \in Methods :
           lgOut' = Emit("WithGinContext", "info", ctx, NilFields,
                         WithGinContext(ctx, [method |-> m, route |-> "/api/users"]))
    /\ UNCHANGED <<lgLevel, nonLogVars>>

CallLogInfo ==
    /\ Len(lgOut) < MaxLogs
    /\ \E ctx \in LogContexts, f \in FieldMaps :
           lgOut' = Emit("LogInfo", "info", ctx, f, LogInfo(ctx, f))
    /\ UNCHANGED <<lgLevel, nonLogVars>>

CallLogWarn ==
    /\ Len(lgOut) < MaxLogs
    /\ \E ctx \in LogContexts, f \in FieldMaps :
           lgOut' = Emit("LogWarn", "warn", ctx, f, LogWarn(ctx, f))
    /\ UNCHANGED <<lgLevel, nonLogVars>>

CallLogDebug ==
    /\ Len(lgOut) < MaxLogs
    /\ \E ctx \in LogContexts, f \in FieldMaps :
           lgOut' = Emit("LogDebug", "debug", ctx, f, LogDebug(ctx, f))
    /\ UNCHANGED <<lgLevel, nonLogVars>>

CallLogError ==
    /\ Len(lgOut) < MaxLogs
    /\ \E ctx \in LogContexts, f \in FieldMaps :
           lgOut' = Emit("LogError", "error", ctx, f, LogError(ctx, "boom", f))
    /\ UNCHANGED <<lgLevel, nonLogVars>>

LogNext ==
    \/ CallWithTraceContext
    \/ CallWithGinContext
    \/ CallLogInfo
    \/ CallLogWarn
    \/ CallLogDebug
    \/ CallLogError

\* ------------------------------------------------------------ the actions
\* The router hands the request to the middleware chain (routes: logging,
\* Recovery, CORS, GinMiddleware, MetricsMiddleware, ErrorHandler).  With a
\* tracer provider installed GinMiddleware's otelgin span is the span of
\* c.Request.Context() when MetricsMiddleware runs.
ServeHTTP(r) ==
    /\ r \in live
    /\ pc[r] = "idle"
    /\ \E m \in Methods, rt \in Routes, cl \in ContentLengths :
           req' = [req EXCEPT ![r] = [method |-> m, route |-> rt, contentLength |-> cl]]
    /\ ctxSpan' = [ctxSpan EXCEPT ![r] = IF tracing THEN "root" ELSE "none"]
    /\ spanState' = [spanState EXCEPT ![r]["root"] = IF tracing THEN "open" ELSE "none"]
    /\ pc' = [pc EXCEPT ![r] = "mm"]
    /\ UNCHANGED <<nonHttpVars, live, tracing, writer, cErrors, panicked, deferred,
                   spanStatus, recorded, logs, activeRequests, events>>

\* the attributes the deferred Add(-1) is called with: the defer statement
\* evaluates its arguments when it is executed (telemetry.go:91)
DeferredAttrsFixedMethod(r, rq) == [method |-> "GET", route |-> rq.route]

DeferredAttrs(r, rq) == commonAttrs(rq)

\* MetricsMiddleware up to c.Next() (telemetry.go:81-97)
MM_Enter(r) ==
    /\ pc[r] = "mm"
    /\ activeRequests' = Add(activeRequests, commonAttrs(req[r]), 1)
    /\ deferred' = [deferred EXCEPT ![r] = <<DeferredAttrs(r, req[r])>>]
    /\ events' = [events EXCEPT ![r] =
           @ \o <<Event("http_active_requests", 1, commonAttrs(req[r]))>>
             \o (IF req[r].contentLength > 0
                 THEN <<Event("http_request_size_bytes", req[r].contentLength,
                              commonAttrs(req[r]))>>
                 ELSE <<>>)]
    /\ pc' = [pc EXCEPT ![r] = "next"]
    /\ UNCHANGED <<nonHttpVars, live, tracing, req, writer, cErrors, panicked,
                   ctxSpan, spanState, spanStatus, recorded, logs>>

\* the route's handler writes its response and returns to ErrorHandler
H_Return(r) ==
    /\ pc[r] = "next"
    /\ \E w \in ResponseShapes : writer' = [writer EXCEPT ![r] = w]
    /\ pc' = [pc EXCEPT ![r] = "eh"]
    /\ UNCHANGED <<nonHttpVars, live, tracing, req, cErrors, panicked, deferred,
                   ctxSpan, spanState, spanStatus, recorded, logs,
                   activeRequests, events>>

\* the route's handler panics; ErrorHandler has no recover, so the panic
\* unwinds through MetricsMiddleware to Recovery
H_Panic(r) ==
    /\ pc[r] = "next"
    /\ panicked' = [panicked EXCEPT ![r] = TRUE]
    /\ pc' = [pc EXCEPT ![r] = "unwind"]
    /\ UNCHANGED <<nonHttpVars, live, tracing, req, writer, cErrors, deferred,
                   ctxSpan, spanState, spanStatus, recorded, logs,
                   activeRequests, events>>

\* the context of c.Request at this moment
Ctx(r) ==
    IF IsValid(r) THEN SpanCtx(r, ctxSpan[r]) ELSE Background

\* the handler calls tm.CustomSpan(c, name) (telemetry.go:178-190): the new
\* span's context replaces c.Request's.  Without a tracer provider the
\* tracer hands out a non-recording span that carries the parent's context.
H_CustomSpan(r) ==
    /\ pc[r] = "next"
    /\ spanState[r]["custom"] = "none"
    /\ tracing
    /\ spanState' = [spanState EXCEPT ![r]["custom"] = "open"]
    /\ ctxSpan' = [ctxSpan EXCEPT ![r] = "custom"]
    /\ UNCHANGED <<nonHttpVars, live, tracing, pc, req, writer, cErrors, panicked,
                   deferred, spanStatus, recorded, logs, activeRequests, events>>

\* the handler calls the func() CustomSpan returned: span.End() and nothing
\* else (telemetry.go:187-189)
H_EndCustomSpan(r) ==
    /\ pc[r] = "next"
    /\ spanState[r]["custom"] = "open"
    /\ spanState' = [spanState EXCEPT ![r]["custom"] = "ended"]
    /\ UNCHANGED <<nonHttpVars, live, tracing, pc, req, writer, cErrors, panicked,
                   deferred, ctxSpan, spanStatus, recorded, logs,
                   activeRequests, events>>

\* middleware.RecordError(c, err, description) (telemetry.go:220-229)
H_RecordError(r) ==
    /\ pc[r] = "next"
    /\ IF IsRecording(r)
       THEN /\ recorded' = [recorded EXCEPT ![r][ctxSpan[r]] = TRUE]
            /\ spanStatus' = [spanStatus EXCEPT ![r][ctxSpan[r]] = SetStatus(@, "Error")]
       ELSE UNCHANGED <<recorded, spanStatus>>
    /\ UNCHANGED <<nonHttpVars, live, tracing, pc, req, writer, cErrors, panicked,
                   deferred, ctxSpan, spanState, logs, activeRequests, events>>

\* the handler attaches an error to the request: c.Error(err), optionally
\* with SetType
H_Error(r) ==
    /\ pc[r] = "next"
    /\ Len(cErrors[r]) < MaxErrors
    /\ \E t \in ErrTypes : cErrors' = [cErrors EXCEPT ![r] = Append(@, t)]
    /\ UNCHANGED <<nonHttpVars, live, tracing, pc, req, writer, panicked, deferred,
                   ctxSpan, spanState, spanStatus, recorded, logs,
                   activeRequests, events>>

\* the handler logs through the request: logging.WithGinContext(c).Info(msg)
\* (user_handler.go:41).  spanOpen notes whether the span of the context was
\* still open when the entry was written.
H_Log(r) ==
    /\ pc[r] = "next"
    /\ Len(logs[r]) < MaxLogs
    /\ logs' = [logs EXCEPT ![r] =
           Append(@, [data |-> WithGinContext(Ctx(r), req[r]),
                      spanOpen |-> IsRecording(r)])]
    /\ UNCHANGED <<nonHttpVars, live, tracing, pc, req, writer, cErrors, panicked,
                   deferred, ctxSpan, spanState, spanStatus, recorded,
                   activeRequests, events>>

\* c.JSON(code, body) as gin applies it: the status changes only while
\* nothing has been written, the body is always appended
JSON(w, code) ==
    [w EXCEPT !.status = IF w.size >= 0 THEN w.status ELSE code,
              !.size = (IF w.size >= 0 THEN w.size ELSE 0) + 2]

ErrorStatus(type) == IF type \in {"bind", "public"} THEN 400 ELSE 500

\* ErrorHandler after c.Next() (error_handler.go:14-37)
EH_After(r) ==
    /\ pc[r] = "eh"
    /\ writer' = [writer EXCEPT ![r] =
           IF Len(cErrors[r]) > 0
           THEN JSON(@, ErrorStatus(cErrors[r][Len(cErrors[r])]))
           ELSE @]
    /\ pc' = [pc EXCEPT ![r] = "post"]
    /\ UNCHANGED <<nonHttpVars, live, tracing, req, cErrors, panicked, deferred,
                   ctxSpan, spanState, spanStatus, recorded, logs,
                   activeRequests, events>>

\* the span status MetricsMiddleware asks for (telemetry.go:145-156)
FinalStatusCode(errs, w) ==
    IF Len(errs) > 0 THEN "Error"
    ELSE IF w.status >= 400 THEN "Error"
    ELSE "Ok"

\* MetricsMiddleware after c.Next() returned (telemetry.go:102-157)
MM_Record(r) ==
    /\ pc[r] = "post"
    /\ events' = [events EXCEPT ![r] =
           @ \o <<Event("http_requests_total", 1, finalAttrs(req[r], writer[r])),
                  Event("http_request_duration_seconds", "elapsed",
                        finalAttrs(req[r], writer[r]))>>
             \o (IF responseSize(writer[r]) > 0
                 THEN <<Event("http_response_size_bytes", responseSize(writer[r]),
                              finalAttrs(req[r], writer[r]))>>
                 ELSE <<>>)]
    /\ spanStatus' =
           IF IsRecording(r)
           THEN [spanStatus EXCEPT ![r][ctxSpan[r]] =
                    SetStatus(@, FinalStatusCode(cErrors[r], writer[r]))]
           ELSE spanStatus
    /\ pc' = [pc EXCEPT ![r] = "defer"]
    /\ UNCHANGED <<nonHttpVars, live, tracing, req, writer, cErrors, panicked,
                   deferred, ctxSpan, spanState, recorded, logs, activeRequests>>

\* the deferred calls that run when MetricsMiddleware is left, by return or
\* by panic (telemetry.go:91)
RunDeferredNotOnPanic(r) == IF panicked[r] THEN <<>> ELSE deferred[r]

RunDeferred(r) == deferred[r]

RECURSIVE AddAll(_, _)
AddAll(counter, attrsSeq) ==
    IF attrsSeq = <<>> THEN counter
    ELSE AddAll(Add(counter, Head(attrsSeq), -1), Tail(attrsSeq))

MM_Exit(r) ==
    /\ pc[r] \in {"defer", "unwind"}
    /\ activeRequests' = AddAll(activeRequests, RunDeferred(r))
    /\ events' = [events EXCEPT ![r] =
           @ \o [i \in 1..Len(RunDeferred(r)) |->
                    Event("http_active_requests", -1, RunDeferred(r)[i])]]
    /\ deferred' = [deferred EXCEPT ![r] = <<>>]
    /\ pc' = [pc EXCEPT ![r] = "done"]
    /\ UNCHANGED <<nonHttpVars, live, tracing, req, writer, cErrors, panicked,
                   ctxSpan, spanState, spanStatus, recorded, logs>>


\* ===================================================== UserRepository
\* the instruments createDBWithMetrics stores in DB (connection.go:227-236)
DBInstruments ==
    {"db.query.duration", "db.query.count", "db.query.errors",
     "db.connections.active", "db.connection.errors", "db.health_check.duration"}

\* the same recordings with the error counter used without its nil test
RecordQueryMetricsErrUnchecked(operation, table, err, by) ==
    (IF "db.query.duration" \in dbInstr
     THEN <<[inst |-> "db.query.duration", operation |-> operation,
             table |-> table, errorType |-> "", by |-> by]>>
     ELSE <<>>)
    \o (IF "db.query.count" \in dbInstr
        THEN <<[inst |-> "db.query.count", operation |-> operation,
                table |-> table, errorType |-> "", by |-> by]>>
        ELSE <<>>)
    \o (IF err
        THEN <<[inst |-> "db.query.errors", operation |-> operation,
                table |-> table, errorType |-> "query_failed", by |-> by]>>
        ELSE <<>>)

\* DB.RecordQueryMetrics (connection.go:270-292): the recordings of one call,
\* in order.  `by` is the span of the repository call that made it.
RecordQueryMetrics(operation, table, err, by) ==
    (IF "db.query.duration" \in dbInstr
     THEN <<[inst |-> "db.query.duration", operation |-> operation,
             table |-> table, errorType |-> "", by |-> by]>>
     ELSE <<>>)
    \o (IF "db.query.count" \in dbInstr
        THEN <<[inst |-> "db.query.count", operation |-> operation,
                table |-> table, errorType |-> "", by |-> by]>>
        ELSE <<>>)
    \o (IF err /\ "db.query.errors" \in dbInstr
        THEN <<[inst |-> "db.query.errors", operation |-> operation,
                table |-> table, errorType |-> "query_failed", by |-> by]>>
        ELSE <<>>)

RepoOps == {"GetAll", "GetByID", "Create", "Update", "Delete", "Count", "GetByEmail"}

\* the db.operation attribute each operation puts on its span
DbOperation ==
    [GetAll |-> "SELECT", GetByID |-> "SELECT", Create |-> "INSERT",
     Update |-> "UPDATE", Delete |-> "DELETE", Count |-> "SELECT",
     GetByEmail |-> "SELECT"]

\* models.UpdateUserRequest: the fields that are not nil, in the order Update
\* tests them
UpdateRequests == {<<>>, <<"name">>, <<"name", "bio">>}
RepoArgs(op) == IF op = "Update" THEN UpdateRequests ELSE {<<>>}

\* the statement Update builds (repository: lines 211-246)
RECURSIVE JoinParts(_)
JoinParts(parts) ==
    IF Len(parts) = 0 THEN ""
    ELSE IF Len(parts) = 1 THEN Head(parts)
    ELSE Head(parts) \o ", " \o JoinParts(Tail(parts))

UpdateQuery(changed) ==
    "UPDATE users SET "
    \o JoinParts([i \in 1..Len(changed) |-> changed[i] \o " = ?"]
                 \o <<"updated_at = NOW()">>)
    \o " WHERE id = ?"

DeleteQuery == "DELETE FROM users WHERE id = ?"
CountQuery == "SELECT COUNT(*) FROM users"
GetByEmailQuery == "SELECT id, name, email, bio, created_at, updated_at FROM users WHERE email = ?"

RepoIdle ==
    /\ stack = <<>>
    /\ rspans = <<>>
    /\ rEnds = <<>>
    /\ rEvents = <<>>
    /\ rCalls = <<>>

Top == stack[Len(stack)]

\* r.tracer.Start(ctx, "UserRepository.<op>") with the operation's first
\* SetAttributes: a child of the span of ctx
NewSpan(op) ==
    [name |-> "UserRepository." \o op,
     parent |-> IF stack = <<>> THEN 0 ELSE Top.span,
     operation |-> DbOperation[op], table |-> "users", success |-> "unset"]

NewFrame(op, arg) ==
    [op |-> op, pc |-> "body", span |-> Len(rspans) + 1, arg |-> arg,
     sub |-> "", result |-> ""]

\* the frame on top of the stack moves to pc p with result res
Finish(res) == [stack EXCEPT ![Len(stack)].pc = "ret", ![Len(stack)].result = res]

\* the frame on top of the stack calls r.GetByID(ctx, id) and waits at pc p
CallGetByID(p) ==
    /\ stack' = Append([stack EXCEPT ![Len(stack)].pc = p, ![Len(stack)].sub = ""],
                       NewFrame("GetByID", <<>>))
    /\ rspans' = Append(rspans, NewSpan("GetByID"))

SetSuccess(v) == [rspans EXCEPT ![Top.span].success = v]

\* a handler calls one repository operation
RepoCall ==
    /\ stack = <<>>
    /\ Cardinality({i \in 1..Len(rCalls) : ~rCalls[i].nested}) < MaxCalls
    /\ \E op \in RepoOps : \E arg \in RepoArgs(op) :
           /\ stack' = <<NewFrame(op, arg)>>
           /\ rspans' = Append(rspans, NewSpan(op))
    /\ UNCHANGED <<rEnds, rEvents, rCalls, nonRepoVars>>

\* GetAll (repository: lines 32-94)
GetAll_Body ==
    /\ stack # <<>> /\ Top.op = "GetAll" /\ Top.pc = "body"
    /\ \E outcome \in {"queryErr", "scanErr", "rowsErr", "ok"} :
           /\ rEvents' = rEvents \o
                  RecordQueryMetrics("SELECT", "users", outcome = "queryErr", Top.span)
           /\ rspans' = SetSuccess(outcome = "ok")
           /\ stack' = Finish(IF outcome = "ok" THEN "nil" ELSE "failed")
    /\ UNCHANGED <<rEnds, rCalls, nonRepoVars>>

\* GetByID (repository: lines 97-148)
GetByID_Body ==
    /\ stack # <<>> /\ Top.op = "GetByID" /\ Top.pc = "body"
    /\ \E outcome \in {"ok", "noRows", "err"} :
           /\ rEvents' = rEvents \o
                  RecordQueryMetrics("SELECT", "users", outcome # "ok", Top.span)
           /\ rspans' = SetSuccess(outcome # "err")
           /\ stack' = Finish(CASE outcome = "ok" -> "nil"
                                [] outcome = "noRows" -> "not found"
                                [] OTHER -> "failed")
    /\ UNCHANGED <<rEnds, rCalls, nonRepoVars>>

\* Create (repository: lines 151-191)
Create_Body ==
    /\ stack # <<>> /\ Top.op = "Create" /\ Top.pc = "body"
    /\ \E outcome \in {"execErr", "idErr", "ok"} :
           /\ rEvents' = rEvents \o
                  RecordQueryMetrics("INSERT", "users", outcome = "execErr", Top.span)
           /\ IF outcome = "ok"
              THEN /\ stack' = Append([stack EXCEPT ![Len(stack)].pc = "tail"],
                                      NewFrame("GetByID", <<>>))
                   /\ rspans' = Append(SetSuccess(TRUE), NewSpan("GetByID"))
              ELSE /\ stack' = Finish("failed")
                   /\ rspans' = SetSuccess(FALSE)
    /\ UNCHANGED <<rEnds, rCalls, nonRepoVars>>

\* Update and Delete first look the user up (repository: lines 205, 269)
Lookup_Body ==
    /\ stack # <<>> /\ Top.op \in {"Update", "Delete"} /\ Top.pc = "body"
    /\ CallGetByID("checked")
    /\ UNCHANGED <<rEnds, rEvents, rCalls, nonRepoVars>>

\* Update after the lookup (repository: lines 206-255); RecordQueryMetrics is
\* called with (ctx, query, err): the statement stands where the operation
\* is expected and no table is given
Update_AfterGet ==
    /\ stack # <<>> /\ Top.op = "Update" /\ Top.pc = "checked" /\ Top.sub # ""
    /\ IF Top.sub # "nil"
       THEN /\ stack' = Finish(Top.sub)
            /\ UNCHANGED <<rEvents, rspans>>
       ELSE IF Len(Top.arg) = 0
       THEN /\ stack' = Finish("nil")
            /\ UNCHANGED <<rEvents, rspans>>
       ELSE \E outcome \in {"execErr", "ok"} :
            /\ rEvents' = rEvents \o
                   RecordQueryMetrics(UpdateQuery(Top.arg), "", outcome = "execErr",
                                      Top.span)
            /\ IF outcome = "ok"
               THEN CallGetByID("tail")
               ELSE /\ stack' = Finish("failed")
                    /\ UNCHANGED rspans
    /\ UNCHANGED <<rEnds, rCalls, nonRepoVars>>

\* Delete after the lookup (repository: lines 270-284); RecordQueryMetrics is
\* called with (ctx, query, start, err)
Delete_AfterGet ==
    /\ stack # <<>> /\ Top.op = "Delete" /\ Top.pc = "checked" /\ Top.sub # ""
    /\ IF Top.sub # "nil"
       THEN /\ stack' = Finish(Top.sub)
            /\ UNCHANGED rEvents
       ELSE \E outcome \in {"execErr", "ok"} :
            /\ rEvents' = rEvents \o
                   RecordQueryMetrics(DeleteQuery, "", outcome = "execErr", Top.span)
            /\ stack' = Finish(IF outcome = "ok" THEN "nil" ELSE "failed")
    /\ UNCHANGED <<rspans, rEnds, rCalls, nonRepoVars>>

\* Count (repository: lines 287-307); RecordQueryMetrics(ctx, query, err)
Count_Body ==
    /\ stack # <<>> /\ Top.op = "Count" /\ Top.pc = "body"
    /\ \E outcome \in {"err", "ok"} :
           /\ rEvents' = rEvents \o
                  RecordQueryMetrics(CountQuery, "", outcome = "err", Top.span)
           /\ stack' = Finish(IF outcome = "ok" THEN "nil" ELSE "failed")
    /\ UNCHANGED <<rspans, rEnds, rCalls, nonRepoVars>>

\* GetByEmail (repository: lines 310-348); RecordQueryMetrics(ctx, query, err)
GetByEmail_Body ==
    /\ stack # <<>> /\ Top.op = "GetByEmail" /\ Top.pc = "body"
    /\ \E outcome \in {"ok", "noRows", "err"} :
           /\ rEvents' = rEvents \o
                  RecordQueryMetrics(GetByEmailQuery, "", outcome # "ok", Top.span)
           /\ stack' = Finish(CASE outcome = "ok" -> "nil"
                                [] outcome = "noRows" -> "not found"
                                [] OTHER -> "failed")
    /\ UNCHANGED <<rspans, rEnds, rCalls, nonRepoVars>>

\* `return r.GetByID(ctx, id)` at the end of Create and Update: the nested
\* call's result is the caller's
Tail_Return ==
    /\ stack # <<>> /\ Top.pc = "tail" /\ Top.sub # ""
    /\ stack' = Finish(Top.sub)
    /\ UNCHANGED <<rspans, rEnds, rEvents, rCalls, nonRepoVars>>

\* the deferred span.End() of the returning frame: every operation registers
\* it right after tracer.Start, so it runs on every return path
DeferredEndSkippedOnError(frame) == IF frame.result # "nil" THEN <<>> ELSE <<frame.span>>

DeferredEnd(frame) == <<frame.span>>

\* the operation on top of the stack returns to its caller
Repo_Return ==
    /\ stack # <<>> /\ Top.pc = "ret"
    /\ rEnds' = rEnds \o DeferredEnd(Top)
    /\ rCalls' = Append(rCalls, [op |-> Top.op, span |-> Top.span,
                                 failed |-> Top.result # "nil",
                                 nested |-> Len(stack) > 1])
    /\ stack' = IF Len(stack) > 1
                THEN [SubSeq(stack, 1, Len(stack) - 1)
                          EXCEPT ![Len(stack) - 1].sub = Top.result]
                ELSE <<>>
    /\ UNCHANGED <<rspans, rEvents, nonRepoVars>>

RepoNext ==
    \/ RepoCall
    \/ GetAll_Body
    \/ GetByID_Body
    \/ Create_Body
    \/ Lookup_Body
    \/ Update_AfterGet
    \/ Delete_AfterGet
    \/ Count_Body
    \/ GetByEmail_Body
    \/ Tail_Return
    \/ Repo_Return


\* ============================================================ start-up
\* the order in which CreateMetrics asks the meter for its instruments
\* (connection.go:86-134)
InstrumentOrder ==
    <<"db.query.duration", "db.query.count", "db.query.errors",
      "db.connections.active", "db.connection.errors", "db.health_check.duration">>

\* what the process finds at start-up: whether sql open, ping and the stats
\* registration fail, and the instruments the meter refuses to create
StartEnvs ==
    [openErr : BOOLEAN, pingErr : BOOLEAN, statsErr : BOOLEAN,
     failing : SUBSET DBInstruments]

\* DefaultMetricsFactory.CreateMetrics: the error of the first instrument the
\* meter fails to create, "nil" when all six are created
RECURSIVE CreateMetricsFrom(_, _)
CreateMetricsFrom(i, failing) ==
    IF i > Len(InstrumentOrder) THEN "nil"
    ELSE IF InstrumentOrder[i] \in failing
         THEN "failed to create " \o InstrumentOrder[i]
         ELSE CreateMetricsFrom(i + 1, failing)

CreateMetrics(failing) == CreateMetricsFrom(1, failing)

\* createDBWithMetrics: nil and the error, or the DB with all six instruments
createDBWithMetrics(failing) ==
    IF CreateMetrics(failing) # "nil"
    THEN [db |-> {}, err |-> "failed to create metrics: " \o CreateMetrics(failing)]
    ELSE [db |-> DBInstruments, err |-> "nil"]

\* the process after a start-up in which nothing failed
StartIdle ==
    /\ dbInstr = DBInstruments
    /\ stPc = "serving"
    /\ stEnv = [openErr |-> FALSE, pingErr |-> FALSE, statsErr |-> FALSE,
                failing |-> {}]
    /\ stLog = <<"Successfully connected to database">>
    /\ stResult = "nil"

\* main calls database.NewConnection
StartInit ==
    /\ dbInstr = {}
    /\ stPc = "open"
    /\ stEnv \in StartEnvs
    /\ stLog = <<>>
    /\ stResult = "pending"

\* connector.Open (connection.go:163-179)
Conn_Open ==
    /\ stPc = "open"
    /\ IF stEnv.openErr
       THEN /\ stResult' = "failed to open database connection"
            /\ stPc' = "returned"
       ELSE /\ stPc' = "pool"
            /\ UNCHANGED stResult
    /\ UNCHANGED <<dbInstr, stEnv, stLog, nonStartVars>>

\* configureConnectionPool always returns nil (connection.go:181-184, 209-214)
Conn_ConfigurePool ==
    /\ stPc = "pool"
    /\ stPc' = "ping"
    /\ UNCHANGED <<dbInstr, stEnv, stLog, stResult, nonStartVars>>

\* db.Ping (connection.go:185-187)
Conn_Ping ==
    /\ stPc = "ping"
    /\ IF stEnv.pingErr
       THEN /\ stResult' = "failed to ping database"
            /\ stPc' = "returned"
       ELSE /\ stPc' = "stats"
            /\ UNCHANGED stResult
    /\ UNCHANGED <<dbInstr, stEnv, stLog, nonStartVars>>

\* connector.RegisterDBStatsMetrics: a failure is logged and start-up goes on
\* (connection.go:190-196)
Conn_RegisterStats ==
    /\ stPc = "stats"
    /\ stLog' = IF stEnv.statsErr
                THEN Append(stLog, "Warning: Failed to register database stats metrics")
                ELSE stLog
    /\ stPc' = "metrics"
    /\ UNCHANGED <<dbInstr, stEnv, stResult, nonStartVars>>

\* createDBWithMetrics and the return of NewConnectionWithDeps
\* (connection.go:199-205)
Conn_CreateDBWithMetrics ==
    /\ stPc = "metrics"
    /\ LET made == createDBWithMetrics(stEnv.failing)
       IN  IF made.err # "nil"
           THEN /\ stResult' = "failed to create database with metrics: " \o made.err
                /\ UNCHANGED <<dbInstr, stLog>>
           ELSE /\ stResult' = "nil"
                /\ dbInstr' = made.db
                /\ stLog' = Append(stLog, "Successfully connected to database")
    /\ stPc' = "returned"
    /\ UNCHANGED <<stEnv, nonStartVars>>

\* main after database.NewConnection: log.Fatalf on an error, otherwise the
\* monitor is started and the routes are set up (main: lines 73-87)
Main_AfterConnect ==
    /\ stPc = "returned"
    /\ IF stResult # "nil"
       THEN /\ stLog' = Append(stLog, "Failed to connect to database: " \o stResult)
            /\ stPc' = "fatal"
       ELSE /\ stPc' = "serving"
            /\ UNCHANGED stLog
    /\ UNCHANGED <<dbInstr, stEnv, stResult, nonStartVars>>

StartNext ==
    \/ Conn_Open
    \/ Conn_ConfigurePool
    \/ Conn_Ping
    \/ Conn_RegisterStats
    \/ Conn_CreateDBWithMetrics
    \/ Main_AfterConnect


\* ======================================================= InitTelemetry
\* the three signals, in the order InitTelemetry sets them up
Signals == <<"tracing", "metrics", "logging">>
SignalSet == {Signals[i] : i \in 1..Len(Signals)}

\* TelemetryConfig's enable flags (config/telemetry.go:28-30)
TelemetryConfigs == [SignalSet -> BOOLEAN]

\* what InitTelemetry meets: whether resource.New fails and the signals whose
\* OTLP exporter cannot be constructed
TelemetryEnvs == [resourceErr : BOOLEAN, failing : SUBSET SignalSet]

NoProviders == [sig \in SignalSet |-> FALSE]

\* `if cfg.EnableTracing` / EnableMetrics / EnableLogging
EnabledAlways(cfg, sig) == TRUE

Enabled(cfg, sig) == cfg[sig]

\* the process with all three signals set up and never shut down
TelIdle ==
    /\ tlPc = "running"
    /\ tlCfg = [sig \in SignalSet |-> TRUE]
    /\ tlEnv = [resourceErr |-> FALSE, failing |-> {}]
    /\ tlProv = [sig \in SignalSet |-> TRUE]
    /\ shutdownFuncs = Signals
    /\ tlErr = "nil"
    /\ sdIdx = 0
    /\ sdCalls = <<>>
    /\ sdErrs = <<>>
    /\ sdResult = "none"
    /\ sdCount = 0

\* main calls config.InitTelemetry(telemetryCfg)
TelInit ==
    /\ tlPc = "resource"
    /\ tlCfg \in TelemetryConfigs
    /\ tlEnv \in TelemetryEnvs
    /\ tlProv = NoProviders
    /\ shutdownFuncs = <<>>
    /\ tlErr = "pending"
    /\ sdIdx = 0
    /\ sdCalls = <<>>
    /\ sdErrs = <<>>
    /\ sdResult = "none"
    /\ sdCount = 0

\* resource.New (config/telemetry.go:47-61)
Init_Resource ==
    /\ tlPc = "resource"
    /\ IF tlEnv.resourceErr
       THEN /\ tlErr' = "failed to create resource"
            /\ tlPc' = "returned"
       ELSE /\ tlPc' = "tracing"
            /\ UNCHANGED tlErr
    /\ UNCHANGED <<tlCfg, tlEnv, tlProv, shutdownFuncs, sdIdx, sdCalls, sdErrs,
                   sdResult, sdCount, nonTelVars>>

\* one `if cfg.Enable<Signal>` block: the provider is built and its Shutdown
\* appended, or InitTelemetry returns nil and the error
\* (config/telemetry.go:69-85, 88-98, 101-112)
InitSignal(sig, next) ==
    /\ tlPc = sig
    /\ IF ~Enabled(tlCfg, sig)
       THEN /\ tlPc' = next
            /\ UNCHANGED <<tlProv, shutdownFuncs, tlErr>>
       ELSE IF sig \in tlEnv.failing
       THEN /\ tlErr' = "failed to initialize " \o sig
            /\ tlPc' = "returned"
            /\ UNCHANGED <<tlProv, shutdownFuncs>>
       ELSE /\ tlProv' = [tlProv EXCEPT ![sig] = TRUE]
            /\ shutdownFuncs' = Append(shutdownFuncs, sig)
            /\ tlPc' = next
            /\ UNCHANGED tlErr
    /\ UNCHANGED <<tlCfg, tlEnv, sdIdx, sdCalls, sdErrs, sdResult, sdCount,
                   nonTelVars>>

Init_Tracing == InitSignal("tracing", "metrics")
Init_Metrics == InitSignal("metrics", "logging")
Init_Logging == InitSignal("logging", "built")

\* the providers installed as otel's global ones: otel.SetTracerProvider and
\* otel.SetMeterProvider follow the construction in the same block; there is
\* no global logger provider (config/telemetry.go:78, 97, 109-111)
RegisteredGlobal == {sig \in {"tracing", "metrics"} : tlProv[sig]}

\* the TelemetryProvider is returned with a nil error
\* (config/telemetry.go:128-133)
Init_Return ==
    /\ tlPc = "built"
    /\ tlErr' = "nil"
    /\ tlPc' = "returned"
    /\ UNCHANGED <<tlCfg, tlEnv, tlProv, shutdownFuncs, sdIdx, sdCalls, sdErrs,
                   sdResult, sdCount, nonTelVars>>

\* main after InitTelemetry: log.Fatalf on an error, otherwise start-up goes
\* on (cmd/api/main.go:34-37)
Main_AfterInitTelemetry ==
    /\ tlPc = "returned"
    /\ tlPc' = IF tlErr # "nil" THEN "fatal" ELSE "running"
    /\ UNCHANGED <<tlCfg, tlEnv, tlProv, shutdownFuncs, tlErr, sdIdx, sdCalls,
                   sdErrs, sdResult, sdCount, nonTelVars>>

\* telemetryProvider.Shutdown(ctx) is called (config/telemetry.go:115-116)
Shutdown_Call ==
    /\ tlPc = "running"
    /\ sdCount < MaxShutdowns
    /\ sdCount' = sdCount + 1
    /\ sdIdx' = 1
    /\ sdCalls' = <<>>
    /\ sdErrs' = <<>>
    /\ sdResult' = "none"
    /\ tlPc' = "shutdown"
    /\ UNCHANGED <<tlCfg, tlEnv, tlProv, shutdownFuncs, tlErr, nonTelVars>>

\* the range loop over shutdownFuncs goes on while callbacks remain
LoopStopsAtFirstError(i, errs) == i <= Len(shutdownFuncs) /\ errs = <<>>

LoopGoesOn(i, errs) == i <= Len(shutdownFuncs)

\* one iteration: fn(ctx) is called and its error, if any, collected
\* (config/telemetry.go:117-121)
Shutdown_Callback ==
    /\ tlPc = "shutdown"
    /\ LoopGoesOn(sdIdx, sdErrs)
    /\ \E failed \in BOOLEAN :
           /\ sdCalls' = Append(sdCalls, [sig |-> shutdownFuncs[sdIdx], failed |-> failed])
           /\ sdErrs' = IF failed THEN Append(sdErrs, shutdownFuncs[sdIdx]) ELSE sdErrs
    /\ sdIdx' = sdIdx + 1
    /\ UNCHANGED <<tlPc, tlCfg, tlEnv, tlProv, shutdownFuncs, tlErr, sdResult,
                   sdCount, nonTelVars>>

\* after the loop: the combined error, or nil (config/telemetry.go:122-125)
Shutdown_Return ==
    /\ tlPc = "shutdown"
    /\ ~LoopGoesOn(sdIdx, sdErrs)
    /\ sdResult' = IF Len(sdErrs) > 0 THEN "telemetry shutdown errors" ELSE "nil"
    /\ tlPc' = "running"
    /\ UNCHANGED <<tlCfg, tlEnv, tlProv, shutdownFuncs, tlErr, sdIdx, sdCalls,
                   sdErrs, sdCount, nonTelVars>>

TelNext ==
    \/ Init_Resource
    \/ Init_Tracing
    \/ Init_Metrics
    \/ Init_Logging
    \/ Init_Return
    \/ Main_AfterInitTelemetry
    \/ Shutdown_Call
    \/ Shutdown_Callback
    \/ Shutdown_Return


\* ================================================= connection monitor
\* sql.DBStats as far as the monitor uses it: OpenConnections and Idle
\* (InUse is their difference); the pool moves between these while request
\* handlers take and return connections
PoolStats == {[open |-> 2, idle |-> 2], [open |-> 3, idle |-> 1]}

InUse(stats) == stats.open - stats.idle

\* DB.RecordConnectionMetrics on the snapshot it took (connection.go:295-309):
\* the recordings it makes, in order
RecordConnectionMetricsInUse(stats) ==
    IF "db.connections.active" \in dbInstr
    THEN <<[type |-> "active", delta |-> stats.open],
           [type |-> "idle", delta |-> 0 - InUse(stats)]>>
    ELSE <<>>

RecordConnectionMetrics(stats) ==
    IF "db.connections.active" \in dbInstr
    THEN <<[type |-> "active", delta |-> stats.open],
           [type |-> "idle", delta |-> 0 - stats.idle]>>
    ELSE <<>>

\* `defer ticker.Stop()` has run when the goroutine returns (monitor: line 13)
TickerLeftRunning == "active"

TickerAfterReturn == "stopped"

\* no monitor has been started
MonIdle ==
    /\ monPc = "notStarted"
    /\ monCtxDone = FALSE
    /\ tickPending = FALSE
    /\ ticker = "none"
    /\ ticksFired = 0
    /\ ticksDropped = 0
    /\ pool \in PoolStats /\ pool.open = 2
    /\ monCycles = <<>>
    /\ monEvents = <<>>
    /\ monLog = <<>>
    /\ lateTick = FALSE

\* db.StartConnectionMonitoring(ctx, interval): the goroutine is spawned
\* (monitor: lines 10-11)
StartConnectionMonitoring ==
    /\ monPc = "notStarted"
    /\ monPc' = "spawned"
    /\ UNCHANGED <<monCtxDone, tickPending, ticker, ticksFired, ticksDropped, pool,
                   monCycles, monEvents, monLog, lateTick, nonMonVars>>

\* the goroutine creates its ticker and reaches the select (monitor: 12-16)
Mon_NewTicker ==
    /\ monPc = "spawned"
    /\ ticker' = "active"
    /\ monPc' = "select"
    /\ UNCHANGED <<monCtxDone, tickPending, ticksFired, ticksDropped, pool,
                   monCycles, monEvents, monLog, lateTick, nonMonVars>>

\* the select finds neither channel ready and the goroutine blocks
Mon_Block ==
    /\ monPc = "select"
    /\ ~tickPending /\ ~monCtxDone
    /\ monPc' = "blocked"
    /\ UNCHANGED <<monCtxDone, tickPending, ticker, ticksFired, ticksDropped, pool,
                   monCycles, monEvents, monLog, lateTick, nonMonVars>>

\* the select takes `case <-ticker.C` (monitor: line 20); when both channels
\* are ready Go picks either case.  lateTick notes that the context was
\* already done when the tick was taken.
Mon_SelectTick ==
    /\ monPc = "select"
    /\ tickPending
    /\ tickPending' = FALSE
    /\ lateTick' = monCtxDone
    /\ monPc' = "record"
    /\ UNCHANGED <<monCtxDone, ticker, ticksFired, ticksDropped, pool,
                   monCycles, monEvents, monLog, nonMonVars>>

\* the select takes `case <-ctx.Done()` (monitor: line 17)
Mon_SelectDone ==
    /\ monPc = "select"
    /\ monCtxDone
    /\ monPc' = "stopping"
    /\ UNCHANGED <<monCtxDone, tickPending, ticker, ticksFired, ticksDropped, pool,
                   monCycles, monEvents, monLog, lateTick, nonMonVars>>

\* the ticker fires: the tick wakes a goroutine blocked in the select, or is
\* kept in ticker.C's one-element buffer, or is dropped when that is full
Tick ==
    /\ ticker = "active"
    /\ ticksFired < MaxTicks
    /\ ticksFired' = ticksFired + 1
    /\ IF monPc = "blocked"
       THEN /\ monPc' = "record"
            /\ lateTick' = FALSE
            /\ UNCHANGED <<tickPending, ticksDropped>>
       ELSE IF tickPending
       THEN /\ ticksDropped' = ticksDropped + 1
            /\ UNCHANGED <<monPc, tickPending, lateTick>>
       ELSE /\ tickPending' = TRUE
            /\ UNCHANGED <<monPc, ticksDropped, lateTick>>
    /\ UNCHANGED <<monCtxDone, ticker, pool, monCycles, monEvents, monLog, nonMonVars>>

\* the monitor's context is cancelled or reaches its deadline
\* (cmd/api/main.go: cancelMonitor); a goroutine blocked in the select wakes
Cancel ==
    /\ monPc # "notStarted"
    /\ ~monCtxDone
    /\ monCtxDone' = TRUE
    /\ monPc' = IF monPc = "blocked" THEN "stopping" ELSE monPc
    /\ UNCHANGED <<tickPending, ticker, ticksFired, ticksDropped, pool,
                   monCycles, monEvents, monLog, lateTick, nonMonVars>>

\* a request handler takes or returns a connection
PoolChange ==
    /\ monPc \notin {"notStarted", "stopped"}
    /\ \E st \in PoolStats \ {pool} : pool' = st
    /\ UNCHANGED <<monPc, monCtxDone, tickPending, ticker, ticksFired, ticksDropped,
                   monCycles, monEvents, monLog, lateTick, nonMonVars>>

\* db.RecordConnectionMetrics(ctx): db.Stats() and the two Adds
\* (monitor: line 22; connection.go:295-309)
Mon_Record ==
    /\ monPc = "record"
    /\ monEvents' = monEvents \o RecordConnectionMetrics(pool)
    /\ monCycles' = Append(monCycles,
           [metricStats |-> pool, logStats |-> pool, logged |-> FALSE,
            afterCancel |-> lateTick])
    /\ monPc' = "log"
    /\ UNCHANGED <<monCtxDone, tickPending, ticker, ticksFired, ticksDropped, pool,
                   monLog, lateTick, nonMonVars>>

\* stats := db.GetConnectionStats() - a second db.Stats() - and log.Printf
\* of it (monitor: lines 25-32; connection.go:312-314)
Mon_LogStats ==
    /\ monPc = "log"
    /\ monLog' = Append(monLog, [line |-> "DB Stats", stats |-> pool])
    /\ monCycles' = [monCycles EXCEPT ![Len(monCycles)].logStats = pool,
                                      ![Len(monCycles)].logged = TRUE]
    /\ monPc' = "select"
    /\ UNCHANGED <<monCtxDone, tickPending, ticker, ticksFired, ticksDropped, pool,
                   monEvents, lateTick, nonMonVars>>

\* the Done case: the stop is logged and the goroutine returns, running the
\* deferred ticker.Stop() (monitor: lines 13, 18-19)
Mon_Stop ==
    /\ monPc = "stopping"
    /\ monLog' = Append(monLog, [line |-> "Database connection monitoring stopped",
                                 stats |-> pool])
    /\ ticker' = TickerAfterReturn
    /\ monPc' = "stopped"
    /\ UNCHANGED <<monCtxDone, tickPending, ticksFired, ticksDropped, pool,
                   monCycles, monEvents, lateTick, nonMonVars>>

MonSteps ==
    \/ Mon_NewTicker
    \/ Mon_Block
    \/ Mon_Record
    \/ Mon_LogStats
    \/ Mon_Stop

MonNext ==
    \/ StartConnectionMonitoring
    \/ Mon_NewTicker
    \/ Mon_Block
    \/ Mon_SelectTick
    \/ Mon_SelectDone
    \/ Tick
    \/ Cancel
    \/ PoolChange
    \/ Mon_Record
    \/ Mon_LogStats
    \/ Mon_Stop


\* ============================================================ OtelHook
\* identifiers are sequences of characters; trace.TraceIDFromHex and
\* trace.SpanIDFromHex accept exactly 32 and 16 lower-case hex digits that
\* are not all "0"
HexDigits ==
    {"0", "1", "2", "3", "4", "5", "6", "7", "8", "9", "a", "b", "c", "d", "e", "f"}

Repeat(ch, n) == [i \in 1..n |-> ch]

IsHexID(text, n) ==
    /\ Len(text) = n
    /\ \A i \in 1..Len(text) : text[i] \in HexDigits
    /\ \E i \in 1..Len(text) : text[i] # "0"

FromHexLenient(text, n) == [err |-> FALSE, id |-> text]

FromHex(text, n) ==
    IF IsHexID(text, n) THEN [err |-> FALSE, id |-> text] ELSE [err |-> TRUE, id |-> <<>>]

TraceIDFromHex(text) == FromHex(text, 32)
SpanIDFromHex(text) == FromHex(text, 16)

\* a value of logrus.Fields: whether it is a Go string, and its %v text
Str(text) == [isString |-> TRUE, text |-> text]
NonStr(text) == [isString |-> FALSE, text |-> text]
\* toString (hook: lines 202-204)
toString(value) == value.text

ValidTraceID == Repeat("a", 31) \o <<"1">>
ValidSpanID == Repeat("b", 15) \o <<"2">>

\* entry.Data as the logger itself builds it: without trace fields, or with
\* the identifiers of a valid span context
TracedData ==
    { "key" :> Str(<<"v">>),
      ("trace_id" :> Str(ValidTraceID)) @@ ("span_id" :> Str(ValidSpanID))
          @@ ("key" :> Str(<<"v">>)) }

\* entry.Data after a caller's fields were merged in: also a trace_id text of
\* the caller's, a trace_id that is not a string, and an all-zero span_id
HookData ==
    TracedData \cup
    { ("trace_id" :> Str(<<"f", "o", "r", "g", "e", "d">>))
          @@ ("span_id" :> Str(ValidSpanID)),
      ("trace_id" :> NonStr(<<"7">>)) @@ ("span_id" :> Str(ValidSpanID)),
      ("trace_id" :> Str(ValidTraceID)) @@ ("span_id" :> Str(Repeat("0", 16))) }

\* the levels the model's callers log at
LogLevels == {"info", "error"}

\* OtelHook.convertLevel (hook: lines 184-199)
convertLevel(level) ==
    CASE level \in {"panic", "fatal"} -> "SeverityFatal"
      [] level = "error" -> "SeverityError"
      [] level = "warn" -> "SeverityWarn"
      [] level = "info" -> "SeverityInfo"
      [] level = "debug" -> "SeverityDebug"
      [] OTHER -> "SeverityInfo"

\* NewOtelHook (hook: lines 86-93): provider is TRUE for a non-nil provider
NewOtelHook(provider) ==
    IF ~provider THEN [logger |-> "nil"] ELSE [logger |-> "otel-example-api"]

\* the attributes Fire puts on the record (hook: lines 125-153), as a set of
\* key/text pairs: the range over entry.Data has no fixed order
FireAttrs(entry) ==
    (IF "trace_id" \in DOMAIN entry.data /\ entry.data["trace_id"].isString
     THEN {<<"trace_id", entry.data["trace_id"].text>>} ELSE {})
    \cup (IF "span_id" \in DOMAIN entry.data /\ entry.data["span_id"].isString
          THEN {<<"span_id", entry.data["span_id"].text>>} ELSE {})
    \cup {<<k, toString(entry.data[k])>> : k \in DOMAIN entry.data \ {"trace_id", "span_id"}}
    \cup {<<"logger", <<"logrus">> >>, <<"level", <<entry.level>> >>}

NoSpanContext == [valid |-> FALSE, traceID |-> <<>>, spanID |-> <<>>]

\* the context Fire emits with (hook: lines 156-175)
FireContext(entry) ==
    IF /\ "trace_id" \in DOMAIN entry.data
       /\ entry.data["trace_id"].isString
       /\ "span_id" \in DOMAIN entry.data
       /\ entry.data["span_id"].isString
       /\ ~TraceIDFromHex(entry.data["trace_id"].text).err
       /\ ~SpanIDFromHex(entry.data["span_id"].text).err
    THEN [valid |-> TRUE,
          traceID |-> TraceIDFromHex(entry.data["trace_id"].text).id,
          spanID |-> SpanIDFromHex(entry.data["span_id"].text).id]
    ELSE NoSpanContext

\* OtelHook.Fire (hook: lines 108-181): the error it returns and the records
\* it hands to hook.logger.Emit
FireWithoutNilCheck(hook, entry) ==
    [err |-> "nil",
     emitted |-> <<[severity |-> convertLevel(entry.level),
                    severityText |-> entry.level,
                    attrs |-> FireAttrs(entry),
                    ctx |-> FireContext(entry)]>>]

Fire(hook, entry) ==
    IF hook.logger = "nil"
    THEN [err |-> "nil", emitted |-> <<>>]
    ELSE [err |-> "nil",
          emitted |-> <<[severity |-> convertLevel(entry.level),
                         severityText |-> entry.level,
                         attrs |-> FireAttrs(entry),
                         ctx |-> FireContext(entry)]>>]

\* logrus fires the logger's hooks in the order they were added and then
\* writes the entry: the remote records of one entry
RECURSIVE FireAll(_, _, _)
FireAll(hooks, entry, i) ==
    IF i > Len(hooks) THEN <<>>
    ELSE [j \in 1..Len(Fire(hooks[i], entry).emitted) |->
             [hook |-> i, record |-> Fire(hooks[i], entry).emitted[j]]]
         \o FireAll(hooks, entry, i + 1)

\* logrus.New() in NewLogger: a logger without hooks (logging: line 20)
NewLoggerHooks == <<>>

\* no logger exists yet
HookInit ==
    /\ globalLogger = FALSE
    /\ hkLevel \in {NewLoggerLevel(env) : env \in EnvLogLevels}
    /\ hkHooks = <<>>
    /\ hkLocal = <<>>
    /\ hkRemote = <<>>

\* the process after main's InitGlobalLogger, LOG_LEVEL unset, no hook
HookIdle ==
    /\ globalLogger = TRUE
    /\ hkLevel = "info"
    /\ hkHooks = <<>>
    /\ hkLocal = <<>>
    /\ hkRemote = <<>>

\* a remote hook with a logger has been added to the global logger
RemoteConfigured == \E i \in 1..Len(hkHooks) : hkHooks[i].logger # "nil"

\* logging.InitGlobalLogger (logging: lines 166-168): a new logger replaces
\* the global one, hooks included
InitGlobalLogger ==
    /\ ~globalLogger
    /\ globalLogger' = TRUE
    /\ hkHooks' = NewLoggerHooks
    /\ UNCHANGED <<hkLevel, hkLocal, hkRemote, nonHookVars>>

\* logging.SetupOtelHook(provider) (logging: lines 204-208; AddOtelHook,
\* hook: lines 207-210)
SetupOtelHook ==
    /\ Len(hkHooks) < MaxHooks
    /\ \E provider \in BOOLEAN :
           hkHooks' = IF globalLogger
                      THEN Append(hkHooks, NewOtelHook(provider))
                      ELSE hkHooks
    /\ UNCHANGED <<globalLogger, hkLevel, hkLocal, hkRemote, nonHookVars>>

\* one entry logged through `hooks`: nothing below the logger's level; else
\* the hooks fire and the entry is written to the local stream
LogThrough(via, hooks, level, data) ==
    IF ~IsLevelEnabled(hkLevel, level)
    THEN UNCHANGED <<hkLocal, hkRemote>>
    ELSE LET entry == [level |-> level, data |-> data]
             fired == FireAll(hooks, entry, 1)
         IN  /\ hkLocal' = Append(hkLocal,
                    [via |-> via, level |-> level, data |-> data,
                     hooks |-> hooks,
                     errs |-> [i \in 1..Len(hooks) |-> Fire(hooks[i], entry).err],
                     configured |-> RemoteConfigured])
             /\ hkRemote' = hkRemote \o
                    [j \in 1..Len(fired) |->
                        [from |-> Len(hkLocal) + 1, hook |-> fired[j].hook,
                         record |-> fired[j].record]]

\* a record logged through the global logger: logging.LogInfo, WithGinContext
\* (c).Info, ...; GetLogger creates the logger when there is none
\* (logging: lines 171-201)
GlobalLog ==
    /\ Len(hkLocal) < MaxRecords
    /\ globalLogger' = TRUE
    /\ hkHooks' = IF globalLogger THEN hkHooks ELSE NewLoggerHooks
    /\ \E level \in LogLevels, data \in HookData :
           LogThrough("global", hkHooks', level, data)
    /\ UNCHANGED <<hkLevel, nonHookVars>>

\* the same choice without the 400..499 branch
MiddlewareLevelNoWarn(statusCode) ==
    IF statusCode >= 500 THEN "error" ELSE "info"

\* the level Logger.Middleware logs a request at (logging: lines 106-112)
MiddlewareLevel(statusCode) ==
    IF statusCode >= 500 THEN "error"
    ELSE IF statusCode >= 400 THEN "warn"
    ELSE "info"

\* the request log of the router: SetupRoutes builds its own logger with
\* logging.NewLogger() and installs that logger's Middleware
\* (routes: lines 21, 24; logging: lines 85-116)
MiddlewareLog ==
    /\ Len(hkLocal) < MaxRecords
    /\ \E statusCode \in {200, 500}, data \in TracedData :
           LogThrough("middleware", NewLoggerHooks, MiddlewareLevel(statusCode), data)
    /\ UNCHANGED <<globalLogger, hkLevel, hkHooks, nonHookVars>>

HookNext ==
    \/ InitGlobalLogger
    \/ SetupOtelHook
    \/ GlobalLog
    \/ MiddlewareLog

\* ====================================================== request log
\* Logger.Middleware (logging: lines 85-116) on a logger of any configured
\* level.  param.StatusCode is c.Writer.Status(), whatever the handler set.
LmStatusCodes == {0, 200, 399, 400, 404, 499, 500, 503, 700}

LmIdle == lmLevel = "info" /\ lmOut = <<>>

LmInit == (\E env \in EnvLogLevels : lmLevel = NewLoggerLevel(env)) /\ lmOut = <<>>

\* the formatter runs once per completed request; entry.Error/Warn/Info
\* writes the record when the logger's level admits it
LM_Format ==
    /\ Len(lmOut) < MaxRecords
    /\ \E statusCode \in LmStatusCodes :
           LET level == MiddlewareLevel(statusCode)
           IN  lmOut' = Append(lmOut,
                   [status_code |-> statusCode, level |-> level,
                    written |-> IsLevelEnabled(lmLevel, level)])
    /\ UNCHANGED <<lmLevel, nonLmVars>>

LmNext == LM_Format

\* ====================================================== health endpoints
\* what the database can be while the server runs
DbStates == {"up", "closed", "unreachable"}
NilErr == "<nil>"

\* db.Ping() (connection.go:247): database/sql and the driver report a
\* closed handle or an unreachable server with a message
Ping(db) ==
    CASE db = "up" -> NilErr
      [] db = "closed" -> "sql: database is closed"
      [] OTHER -> "dial tcp: connection refused"

\* DB.Health (connection.go:245-268): the instruments it records on
HealthEvents(err) ==
    <<[inst |-> "db.health_check.duration", status |-> (err = NilErr)]>>
    \o (IF err # NilErr
        THEN <<[inst |-> "db.connection.errors", status |-> FALSE]>>
        ELSE <<>>)

\* HealthHandler.HealthCheck (health: lines 27-44)
HealthCheckResponse(err) ==
    IF err # NilErr
    THEN [route |-> "/health", healthErr |-> err, status |-> 503,
          body |-> [success |-> FALSE, error |-> "Database connection failed"]]
    ELSE [route |-> "/health", healthErr |-> err, status |-> 200,
          body |-> [success |-> TRUE, message |-> "Service is healthy"]]

\* HealthHandler.ReadinessCheck (health: lines 47-63)
ReadinessCheckResponse(err) ==
    IF err # NilErr
    THEN [route |-> "/ready", healthErr |-> err, status |-> 503,
          body |-> [success |-> FALSE, error |-> "Service not ready"]]
    ELSE [route |-> "/ready", healthErr |-> err, status |-> 200,
          body |-> [success |-> TRUE, message |-> "Service is ready"]]

\* a metrics handler that answers 200 whatever Health() returned
GetMetricsResponseAlwaysOK(err) ==
    [route |-> "/metrics", healthErr |-> err, status |-> 200,
     body |-> [healthy |-> (err = NilErr),
               error |-> (IF err # NilErr THEN err ELSE ""),
               status |-> "running"]]

\* MetricsHandler.GetMetrics (metrics_handler.go:21-53)
GetMetricsResponse(err) ==
    [route |-> "/metrics", healthErr |-> err,
     status |-> (IF err # NilErr THEN 503 ELSE 200),
     body |-> [healthy |-> (err = NilErr),
               error |-> (IF err # NilErr THEN err ELSE ""),
               status |-> "running"]]

HcIdle == hcDb = "up" /\ hcResp = <<>> /\ hcEvents = <<>>

HcInit == hcDb \in DbStates /\ hcResp = <<>> /\ hcEvents = <<>>

\* the database goes away or comes back between two probes
DbChange ==
    /\ Len(hcResp) < MaxProbes
    /\ \E db \in DbStates \ {hcDb} : hcDb' = db
    /\ UNCHANGED <<hcResp, hcEvents, nonHcVars>>

HealthCheck ==
    /\ Len(hcResp) < MaxProbes
    /\ LET err == Ping(hcDb)
       IN  /\ hcEvents' = hcEvents \o HealthEvents(err)
           /\ hcResp' = Append(hcResp, HealthCheckResponse(err))
    /\ UNCHANGED <<hcDb, nonHcVars>>

ReadinessCheck ==
    /\ Len(hcResp) < MaxProbes
    /\ LET err == Ping(hcDb)
       IN  /\ hcEvents' = hcEvents \o HealthEvents(err)
           /\ hcResp' = Append(hcResp, ReadinessCheckResponse(err))
    /\ UNCHANGED <<hcDb, nonHcVars>>

GetMetrics ==
    /\ Len(hcResp) < MaxProbes
    /\ LET err == Ping(hcDb)
       IN  /\ hcEvents' = hcEvents \o HealthEvents(err)
           /\ hcResp' = Append(hcResp, GetMetricsResponse(err))
    /\ UNCHANGED <<hcDb, nonHcVars>>

HcNext ==
    \/ DbChange
    \/ HealthCheck
    \/ ReadinessCheck
    \/ GetMetrics

\* ====================================================== process-wide logger
\* The package variable globalLogger (logging: line 163) holds nil (0) or the
\* logger NewLogger built as the n-th of the run.  Goroutines call GetLogger,
\* InitGlobalLogger and SetupOtelHook without synchronisation; every read
\* and write of the variable is one step.
Callers == 1..NumCallers

GlInit ==
    /\ glGlobal = 0
    /\ glMade = 0
    /\ glPc = [g \in Callers |-> "idle"]
    /\ glHooked = {}
    /\ glReturned = {}

GlIdle == GlInit

\* InitGlobalLogger (logging: lines 166-168): globalLogger = NewLogger()
GL_InitGlobalLogger(g) ==
    /\ glPc[g] = "idle"
    /\ glMade < MaxLoggers
    /\ glMade' = glMade + 1
    /\ glGlobal' = glMade + 1
    /\ UNCHANGED <<glPc, glHooked, glReturned, nonGlVars>>

\* GetLogger's test `globalLogger == nil` (logging: line 172)
GL_GetLogger_Check(g) ==
    /\ glPc[g] = "idle"
    /\ glPc' = [glPc EXCEPT ![g] = IF glGlobal = 0 THEN "init" ELSE "return"]
    /\ UNCHANGED <<glGlobal, glMade, glHooked, glReturned, nonGlVars>>

\* GetLogger's call of InitGlobalLogger (logging: line 173)
GL_GetLogger_Init(g) ==
    /\ glPc[g] = "init"
    /\ glMade < MaxLoggers
    /\ glMade' = glMade + 1
    /\ glGlobal' = glMade + 1
    /\ glPc' = [glPc EXCEPT ![g] = "return"]
    /\ UNCHANGED <<glHooked, glReturned, nonGlVars>>

\* GetLogger's `return globalLogger` (logging: line 175)
GL_GetLogger_Return(g) ==
    /\ glPc[g] = "return"
    /\ glReturned' = glReturned \cup {glGlobal}
    /\ glPc' = [glPc EXCEPT ![g] = "idle"]
    /\ UNCHANGED <<glGlobal, glMade, glHooked, nonGlVars>>

\* SetupOtelHook (logging: lines 204-208): the hook goes to the logger that
\* is the global one at this moment, if there is one
GL_SetupOtelHook(g) ==
    /\ glPc[g] = "idle"
    /\ glGlobal # 0
    /\ glGlobal \notin glHooked
    /\ glHooked' = glHooked \cup {glGlobal}
    /\ UNCHANGED <<glGlobal, glMade, glPc, glReturned, nonGlVars>>

GlNext ==
    \E g \in Callers :
        \/ GL_InitGlobalLogger(g)
        \/ GL_GetLogger_Check(g)
        \/ GL_GetLogger_Init(g)
        \/ GL_GetLogger_Return(g)
        \/ GL_SetupOtelHook(g)

\* ====================================================== a DB with nil instruments
\* A DB value whose instrument fields are partly or wholly nil (a DB built as
\* &DB{DB: sqlDB}, metrics_test.go:25), with a live connection pool.
PartialDB ==
    /\ dbInstr \in SUBSET DBInstruments
    /\ stPc = "serving"
    /\ stEnv = [openErr |-> FALSE, pingErr |-> FALSE, statsErr |-> FALSE,
                failing |-> {}]
    /\ stLog = <<>>
    /\ stResult = "nil"

RcIdle == rcLog = <<>>

\* one call of db.RecordQueryMetrics(ctx, "SELECT", "users", d, err)
CallRecordQueryMetrics ==
    /\ Len(rcLog) < MaxCalls
    /\ \E err \in BOOLEAN :
           rcLog' = Append(rcLog,
               [fn |-> "RecordQueryMetrics", err |-> err,
                events |-> RecordQueryMetrics("SELECT", "users", err, "caller")])
    /\ UNCHANGED nonRcVars

\* one call of db.RecordConnectionMetrics(ctx) on the pool as db.Stats()
\* reports it
CallRecordConnectionMetrics ==
    /\ Len(rcLog) < MaxCalls
    /\ \E stats \in PoolStats :
           rcLog' = Append(rcLog,
               [fn |-> "RecordConnectionMetrics", stats |-> stats,
                events |-> RecordConnectionMetrics(stats)])
    /\ UNCHANGED nonRcVars

RcNext ==
    \/ CallRecordQueryMetrics
    \/ CallRecordConnectionMetrics

\* ====================================================== process shutdown
\* main from the start of the monitor to the end of the process
\* (cmd/api/main.go:78-126).  The deferred calls run last-in first-out when
\* main returns: cancelMonitor(), then db.Close(), then the telemetry
\* shutdown, after which the process and its goroutines are gone.
CyclesLogged == Cardinality({c \in 1..Len(monCycles) : monCycles[c].logged})

MainIdle == mainPc = "serving" /\ atClose = [records |-> 0, stats |-> 0]

\* `<-quit` returns and main reaches its end (main.go:113-126)
Main_Quit ==
    /\ mainPc = "serving"
    /\ monPc # "notStarted"
    /\ mainPc' = "returning"
    /\ UNCHANGED <<atClose, monVars, nonMainMonVars>>

\* deferred cancelMonitor() (main.go:87): the monitor's context is done and
\* a goroutine blocked in the select wakes; main does not wait for it
Main_CancelMonitor ==
    /\ mainPc = "returning"
    /\ monCtxDone' = TRUE
    /\ monPc' = IF monPc = "blocked" THEN "stopping" ELSE monPc
    /\ mainPc' = "cancelled"
    /\ UNCHANGED <<atClose, tickPending, ticker, ticksFired, ticksDropped, pool,
                   monCycles, monEvents, monLog, lateTick, nonMainMonVars>>

\* deferred db.Close() (main.go:83); atClose keeps how many snapshots the
\* monitor had taken when Close was called
Main_CloseDB ==
    /\ mainPc = "cancelled"
    /\ mainPc' = "closed"
    /\ atClose' = [records |-> Len(monCycles), stats |-> CyclesLogged]
    /\ UNCHANGED <<monVars, nonMainMonVars>>

\* the deferred telemetry shutdown ends and main returns (main.go:38-46):
\* the process exits, taking the monitor goroutine and its ticker with it
Main_Exit ==
    /\ mainPc = "closed"
    /\ mainPc' = "exited"
    /\ monPc' = "exited"
    /\ ticker' = "none"
    /\ UNCHANGED <<atClose, monCtxDone, tickPending, ticksFired, ticksDropped, pool,
                   monCycles, monEvents, monLog, lateTick, nonMainMonVars>>

ShutdownNext ==
    \/ StartConnectionMonitoring
    \/ Mon_NewTicker
    \/ Mon_Block
    \/ Mon_SelectTick
    \/ Mon_SelectDone
    \/ Tick
    \/ PoolChange
    \/ Mon_Record
    \/ Mon_LogStats
    \/ Mon_Stop
    \/ Main_Quit
    \/ Main_CancelMonitor
    \/ Main_CloseDB
    \/ Main_Exit

\* ====================================================== CreateUser
\* UserHandler.CreateUser (user_handler.go:174-209) served for several
\* requests at once.  The users table is shared; whether it has a unique
\* index on email is not fixed by the repository, so both are examined.
Creators == 1..NumCreates
Emails == {"x@example.com", "y@example.com"}

CrInitWith(unique) ==
    /\ crPc = [r \in Creators |-> "idle"]
    /\ crEmail = [r \in Creators |-> ""]
    /\ crResp = [r \in Creators |-> 0]
    /\ crRows = [e \in Emails |-> 0]
    /\ crUnique = unique
    /\ crCreates = <<>>

CrIdle == CrInitWith(FALSE)

CrInit == \E unique \in BOOLEAN : CrInitWith(unique)

\* c.ShouldBindJSON(&req): 400 for a body that does not bind
\* (user_handler.go:177-183)
CU_Bind(r) ==
    /\ crPc[r] = "idle"
    /\ \E body \in Emails \cup {"{invalid}"} :
           IF body = "{invalid}"
           THEN /\ crResp' = [crResp EXCEPT ![r] = 400]
                /\ crPc' = [crPc EXCEPT ![r] = "done"]
                /\ UNCHANGED crEmail
           ELSE /\ crEmail' = [crEmail EXCEPT ![r] = body]
                /\ crPc' = [crPc EXCEPT ![r] = "lookup"]
                /\ UNCHANGED crResp
    /\ UNCHANGED <<crRows, crUnique, crCreates, nonCrVars>>

\* existingUser, _ := h.userRepo.GetByEmail(...): the error is dropped, so a
\* failed query looks like "no such user"; 409 when a user came back
\* (user_handler.go:186-193)
CU_GetByEmail(r) ==
    /\ crPc[r] = "lookup"
    /\ \E queryErr \in BOOLEAN :
           LET existingUser == ~queryErr /\ crRows[crEmail[r]] > 0
           IN  IF existingUser
               THEN /\ crResp' = [crResp EXCEPT ![r] = 409]
                    /\ crPc' = [crPc EXCEPT ![r] = "done"]
               ELSE /\ crPc' = [crPc EXCEPT ![r] = "create"]
                    /\ UNCHANGED crResp
    /\ UNCHANGED <<crEmail, crRows, crUnique, crCreates, nonCrVars>>

\* h.userRepo.Create(...): the INSERT and the GetByID that follows it
\* (repository: lines 151-191); 500 on an error, 201 otherwise
\* (user_handler.go:195-208)
CU_Create(r) ==
    /\ crPc[r] = "create"
    /\ \E outcome \in {"ok", "execErr", "getErr"} :
           LET rejected == outcome = "execErr"
                           \/ (crUnique /\ crRows[crEmail[r]] > 0)
           IN  /\ crCreates' = Append(crCreates,
                      [r |-> r, email |-> crEmail[r], inserted |-> ~rejected])
               /\ crRows' = IF rejected THEN crRows
                            ELSE [crRows EXCEPT ![crEmail[r]] = @ + 1]
               /\ crResp' = [crResp EXCEPT ![r] =
                      IF rejected \/ outcome = "getErr" THEN 500 ELSE 201]
    /\ crPc' = [crPc EXCEPT ![r] = "done"]
    /\ UNCHANGED <<crEmail, crUnique, nonCrVars>>

CrNext ==
    \E r \in Creators :
        \/ CU_Bind(r)
        \/ CU_GetByEmail(r)
        \/ CU_Create(r)

\* ====================================================== GetUsers pagination
\* UserHandler.GetUsers up to the repository call (user_handler.go:43-70).
MaxInt == 2 ^ (IntBits - 1) - 1
MinInt == 0 - 2 ^ (IntBits - 1)

\* an int operation's result as the machine keeps it
Wrap(x) == ((x - MinInt) % (2 ^ IntBits)) + MinInt

\* the default and the largest page size (user_handler.go:45, 50)
DefaultLimit == 10
MaxLimit == 100

\* a query parameter: absent, not a number, or a decimal number that may lie
\* outside the range of int
NoCall == [limit |-> 0, offset |-> 0, called |-> FALSE]
QueryValues ==
    {[kind |-> "missing", value |-> 0], [kind |-> "text", value |-> 0]}
    \cup {[kind |-> "number", value |-> v] :
             v \in {-5, 0, 1, 2, 3, MaxLimit, MaxLimit + 1, MaxInt, MaxInt + 1000}}

\* c.DefaultQuery(key, dflt): the default only for an absent parameter
DefaultQuery(q, dflt) ==
    IF q.kind = "missing" THEN [kind |-> "number", value |-> dflt] ELSE q

\* strconv.Atoi with its error dropped: 0 for text that is no number, the
\* nearest int for a number out of range
Atoi(q) ==
    IF q.kind = "text" THEN 0
    ELSE IF q.value > MaxInt THEN MaxInt
    ELSE IF q.value < MinInt THEN MinInt
    ELSE q.value

\* the page and limit after the two range tests (user_handler.go:47-52)
EffectivePage(q) ==
    LET page == Atoi(DefaultQuery(q, 1)) IN IF page < 1 THEN 1 ELSE page

EffectiveLimit(q) ==
    LET limit == Atoi(DefaultQuery(q, DefaultLimit))
    IN  IF limit < 1 \/ limit > MaxLimit THEN DefaultLimit ELSE limit

\* offset := (page - 1) * limit in int arithmetic (user_handler.go:54)
Offset(page, limit) == Wrap(Wrap(page - 1) * limit)

GuIdle ==
    /\ guPage = [kind |-> "missing", value |-> 0]
    /\ guLimit = [kind |-> "missing", value |-> 0]
    /\ guCall = NoCall

GuInit == guPage \in QueryValues /\ guLimit \in QueryValues /\ guCall = NoCall

\* GetUsers reaches h.userRepo.GetAll(ctx, limit, offset)
GetUsers ==
    /\ ~guCall.called
    /\ guCall' = [limit |-> EffectiveLimit(guLimit),
                  offset |-> Offset(EffectivePage(guPage), EffectiveLimit(guLimit)),
                  called |-> TRUE]
    /\ UNCHANGED <<guPage, guLimit, nonGuVars>>

GuNext == GetUsers

\* every subsystem of the second group at rest
ExtIdle == LmIdle /\ HcIdle /\ GlIdle /\ RcIdle /\ MainIdle /\ CrIdle /\ GuIdle

CoreIdle ==
    StatusIdle /\ LogIdle /\ RepoIdle /\ StartIdle /\ TelIdle /\ MonIdle /\ HookIdle

\* ------------------------------------------------------ specifications
\* the pipeline before any request, serving the requests of l, with or
\* without a tracer provider
HttpInit(l, t) ==
    /\ live = l
    /\ tracing = t
    /\ pc = [r \in Reqs |-> "idle"]
    /\ req = [r \in Reqs |-> NoReq]
    /\ writer = [r \in Reqs |-> FreshWriter]
    /\ cErrors = [r \in Reqs |-> <<>>]
    /\ panicked = [r \in Reqs |-> FALSE]
    /\ deferred = [r \in Reqs |-> <<>>]
    /\ ctxSpan = [r \in Reqs |-> "none"]
    /\ spanState = [r \in Reqs |-> [k \in SpanKinds |-> "none"]]
    /\ spanStatus = [r \in Reqs |-> [k \in SpanKinds |-> "Unset"]]
    /\ recorded = [r \in Reqs |-> [k \in SpanKinds |-> FALSE]]
    /\ logs = [r \in Reqs |-> <<>>]
    /\ activeRequests = [a \in AttrSets |-> 0]
    /\ events = [r \in Reqs |-> <<>>]

HttpIdle == HttpInit({}, FALSE)

StatusNext == Classify

StatusClassInit == StatusInit /\ HttpIdle /\ LogIdle /\ RepoIdle /\ StartIdle /\ TelIdle /\ MonIdle /\ HookIdle /\ ExtIdle

SpecStatusClass == StatusClassInit /\ [][StatusNext]_vars

\* handlers that only produce a response or panic, many requests at once
MetricsInit == StatusIdle /\ HttpInit(Reqs, FALSE) /\ LogIdle /\ RepoIdle /\ StartIdle /\ TelIdle /\ MonIdle /\ HookIdle /\ ExtIdle

MetricsNext ==
    \E r \in Reqs :
        \/ ServeHTTP(r)
        \/ MM_Enter(r)
        \/ H_Return(r)
        \/ H_Panic(r)
        \/ EH_After(r)
        \/ MM_Record(r)
        \/ MM_Exit(r)

SpecMetrics == MetricsInit /\ [][MetricsNext]_vars

\* one request whose handler also uses the span helpers, c.Error and the logger
TraceInit ==
    StatusIdle /\ (\E t \in BOOLEAN : HttpInit({1}, t)) /\ LogIdle /\ RepoIdle /\ StartIdle /\ TelIdle /\ MonIdle /\ HookIdle /\ ExtIdle

TraceNext ==
    \E r \in Reqs :
        \/ ServeHTTP(r)
        \/ MM_Enter(r)
        \/ H_CustomSpan(r)
        \/ H_EndCustomSpan(r)
        \/ H_RecordError(r)
        \/ H_Error(r)
        \/ H_Log(r)
        \/ H_Return(r)
        \/ H_Panic(r)
        \/ EH_After(r)
        \/ MM_Record(r)
        \/ MM_Exit(r)

SpecTrace == TraceInit /\ [][TraceNext]_vars

LoggerInit == StatusIdle /\ HttpIdle /\ LogInit /\ RepoIdle /\ StartIdle /\ TelIdle /\ MonIdle /\ HookIdle /\ ExtIdle

SpecLog == LoggerInit /\ [][LogNext]_vars

\* the repository used by one goroutine, with every instrument created
RepoInit == StatusIdle /\ HttpIdle /\ LogIdle /\ RepoIdle /\ StartIdle /\ TelIdle /\ MonIdle /\ HookIdle /\ ExtIdle

SpecRepo == RepoInit /\ [][RepoNext]_vars

\* the process from the call of database.NewConnection in main
StartupInit == StatusIdle /\ HttpIdle /\ LogIdle /\ RepoIdle /\ StartInit /\ TelIdle /\ MonIdle /\ HookIdle /\ ExtIdle

SpecStartup == StartupInit /\ [][StartNext]_vars

\* the process from the call of config.InitTelemetry in main
TelemetryInit == StatusIdle /\ HttpIdle /\ LogIdle /\ RepoIdle /\ StartIdle /\ TelInit /\ MonIdle /\ HookIdle /\ ExtIdle

SpecTelemetry == TelemetryInit /\ [][TelNext]_vars

\* the monitor main starts after the database connection is made.  The
\* goroutine is scheduled when it can run, and a select with ctx.Done() ready
\* does not pass it over forever: Go picks uniformly among the ready cases.
MonitorInit == StatusIdle /\ HttpIdle /\ LogIdle /\ RepoIdle /\ StartIdle /\ TelIdle /\ MonIdle /\ HookIdle /\ ExtIdle

SpecMonitor ==
    /\ MonitorInit
    /\ [][MonNext]_vars
    /\ WF_vars(MonSteps)
    /\ SF_vars(Mon_SelectDone)

\* the loggers of the process and the remote hook
HookSpecInit ==
    StatusIdle /\ HttpIdle /\ LogIdle /\ RepoIdle /\ StartIdle /\ TelIdle /\ MonIdle /\ HookInit /\ ExtIdle

SpecHook == HookSpecInit /\ [][HookNext]_vars

\* the request log of a router whose logger has any configured level
RequestLogInit == CoreIdle /\ HttpIdle /\ LmInit /\ HcIdle /\ GlIdle /\ RcIdle /\ MainIdle /\ CrIdle /\ GuIdle

SpecRequestLog == RequestLogInit /\ [][LmNext]_vars

\* probes of the three endpoints while the database comes and goes
HealthInit == CoreIdle /\ HttpIdle /\ LmIdle /\ HcInit /\ GlIdle /\ RcIdle /\ MainIdle /\ CrIdle /\ GuIdle

SpecHealth == HealthInit /\ [][HcNext]_vars

\* goroutines using the process-wide logger from the start of the process
GlobalLoggerInit == CoreIdle /\ HttpIdle /\ LmIdle /\ HcIdle /\ GlInit /\ RcIdle /\ MainIdle /\ CrIdle /\ GuIdle

SpecGlobalLogger == GlobalLoggerInit /\ [][GlNext]_vars

\* the two recording methods called on a DB with any set of instruments
RecordInit ==
    /\ StatusIdle /\ HttpIdle /\ LogIdle /\ RepoIdle /\ TelIdle /\ MonIdle /\ HookIdle
    /\ PartialDB
    /\ LmIdle /\ HcIdle /\ GlIdle /\ RcIdle /\ MainIdle /\ CrIdle /\ GuIdle

SpecRecord == RecordInit /\ [][RcNext]_vars

\* main from the connection to the database to the end of the process
ShutdownInit == CoreIdle /\ HttpIdle /\ ExtIdle

SpecShutdown == ShutdownInit /\ [][ShutdownNext]_vars

\* concurrent POST /api/users requests on an empty users table
CreateUserInit ==
    CoreIdle /\ HttpIdle /\ LmIdle /\ HcIdle /\ GlIdle /\ RcIdle /\ MainIdle /\ CrInit /\ GuIdle

SpecCreateUser == CreateUserInit /\ [][CrNext]_vars

\* GET /api/users with any page and limit parameters
GetUsersInit ==
    CoreIdle /\ HttpIdle /\ LmIdle /\ HcIdle /\ GlIdle /\ RcIdle /\ MainIdle /\ CrIdle /\ GuInit

SpecGetUsers == GetUsersInit /\ [][GuNext]_vars

\* ------------------------------------------------------------- claims
\* events of request r on instrument inst with the given value
EventsOf(r, inst, value) ==
    {i \in 1..Len(events[r]) : events[r][i].inst = inst /\ events[r][i].value = value}

InFlight(r) == pc[r] \in {"next", "eh", "post", "defer", "unwind"}

\* C1: every request that went through MetricsMiddleware - returned normally,
\* returned early with a 4xx, or panicked - has put exactly one +1 and exactly
\* one -1 on http_active_requests, both with its {method, route} attributes.
C1_ActiveNetZero ==
    \A r \in Reqs :
        LET ups == EventsOf(r, "http_active_requests", 1)
            downs == EventsOf(r, "http_active_requests", -1)
        IN /\ Cardinality(downs) <= Cardinality(ups)
           /\ Cardinality(ups) <= 1
           /\ pc[r] = "done" =>
                 /\ Cardinality(ups) = 1
                 /\ Cardinality(downs) = 1
                 /\ \A i \in ups, j \in downs :
                        /\ i < j
                        /\ events[r][i].attrs = commonAttrs(req[r])
                        /\ events[r][j].attrs = events[r][i].attrs

\* a request whose handler panicked has left the middleware
C1_Witness ==
    \E r \in Reqs : pc[r] = "done" /\ panicked[r] /\ Len(events[r]) >= 2

\* indices of request r's events on instrument inst
IndicesOf(r, inst) == {i \in 1..Len(events[r]) : events[r][i].inst = inst}

\* C2 (as claimed): whenever a request has left MetricsMiddleware, by return
\* or by panic, the active-requests counter was decremented and after that
\* exactly one http_requests_total increment and exactly one
\* http_request_duration_seconds observation were recorded, each with the
\* final attribute set {method, route, status_code, status_class}.
C2_ExitRecordsAfterDecrement ==
    \A r \in Reqs :
        pc[r] = "done" =>
            LET downs == EventsOf(r, "http_active_requests", -1)
                counts == IndicesOf(r, "http_requests_total")
                durs == IndicesOf(r, "http_request_duration_seconds")
            IN /\ Cardinality(downs) = 1
               /\ Cardinality(counts) = 1
               /\ Cardinality(durs) = 1
               /\ \A d \in downs, i \in counts \cup durs :
                      /\ d < i
                      /\ events[r][i].attrs = finalAttrs(req[r], writer[r])

\* C3: under every interleaving the running value of http_active_requests
\* for an attribute set is the number of requests with those attributes that
\* are between MetricsMiddleware's entry and its exit; it is never negative
\* and is zero when no such request is in flight.
C3_ActiveEqualsInFlight ==
    \A a \in AttrSets :
        /\ activeRequests[a] =
               Cardinality({r \in Reqs : InFlight(r) /\ commonAttrs(req[r]) = a})
        /\ activeRequests[a] >= 0
        /\ (\A r \in Reqs : ~InFlight(r)) => activeRequests[a] = 0

\* two requests with the same attributes are in flight at once, one of them
\* unwinding from a panic
C3_Witness ==
    \E a \in AttrSets, r1, r2 \in Reqs :
        /\ r1 # r2
        /\ activeRequests[a] = 2
        /\ pc[r1] = "unwind"
        /\ pc[r2] = "post"

\* C4 (as claimed): the class is the code integer-divided by 100, and "1xx"
\* for every code below 100 or at or above 600.
C4_DivideByHundred ==
    scClass # "none" =>
        scClass = (IF scCode < 100 \/ scCode >= 600
                   THEN "1xx"
                   ELSE ToString(scCode \div 100) \o "xx")

\* C4 (amended): codes below 200 give 1xx, 200..299 2xx, 300..399 3xx,
\* 400..499 4xx, and every code at or above 500 - 600 and beyond included -
\* gives 5xx; 199, 200, 301, 404 and 500 give 1xx, 2xx, 3xx, 4xx and 5xx.
C4_StatusClass ==
    scClass # "none" =>
        /\ scCode < 200 => scClass = "1xx"
        /\ (scCode >= 200 /\ scCode < 500) => scClass = ToString(scCode \div 100) \o "xx"
        /\ scCode >= 500 => scClass = "5xx"
        /\ scCode = 199 => scClass = "1xx"
        /\ scCode = 200 => scClass = "2xx"
        /\ scCode = 301 => scClass = "3xx"
        /\ scCode = 404 => scClass = "4xx"
        /\ scCode = 500 => scClass = "5xx"

\* a code at or above 600 has been classified
C4_Witness == scCode >= 600 /\ scClass = "5xx"

\* C5 (as claimed): when a request whose context carries a recording span has
\* completed, that span's status is Error exactly when the request recorded
\* an error (c.Error, or RecordError on the span) or answered with a status
\* code >= 400, and Ok in every other case.
C5_StatusErrorIffErrorOrCode ==
    \A r \in Reqs :
        (pc[r] = "done" /\ ~panicked[r] /\ IsRecording(r)) =>
            LET k == ctxSpan[r]
                failed == \/ Len(cErrors[r]) > 0
                          \/ recorded[r][k]
                          \/ writer[r].status >= 400
            IN spanStatus[r][k] = (IF failed THEN "Error" ELSE "Ok")

\* C6 (as claimed): every entry built for a context with a valid span context
\* carries trace_id and span_id equal to that span's identifiers, whatever
\* fields map the caller supplied; for a context without one the logger adds
\* neither field (one present there came with the caller's fields).
C6_EntriesCarrySpanIds ==
    \A i \in 1..Len(lgOut) :
        LET e == lgOut[i]
        IN IF e.ctx.valid
           THEN /\ "trace_id" \in DOMAIN e.data
                /\ "span_id" \in DOMAIN e.data
                /\ e.data["trace_id"] = e.ctx.traceID
                /\ e.data["span_id"] = e.ctx.spanID
           ELSE \A k \in {"trace_id", "span_id"} :
                    k \in DOMAIN e.data => k \in DOMAIN e.fields

\* C7 (as claimed): a log entry carries a span's span_id only if it was
\* written while that span was open; after the end function returned by
\* CustomSpan has run, no later entry of the request carries that span_id.
C7_NoLogAfterSpanEnd ==
    \A r \in Reqs :
        \A i \in 1..Len(logs[r]) :
            "span_id" \in DOMAIN logs[r][i].data => logs[r][i].spanOpen


\* ---- C8
EndIndex(sp) == CHOOSE i \in 1..Len(rEnds) : rEnds[i] = sp
Ended(sp) == \E i \in 1..Len(rEnds) : rEnds[i] = sp

\* C8: every span a UserRepository operation starts is ended exactly once
\* when the operation returns, on every return path (error and early returns
\* included), never while the operation still runs, and a GetByID span
\* started inside Create, Update or Delete is ended before the span of the
\* operation that called it.
C8_SpansEndedOnceInnerFirst ==
    /\ \A i, j \in 1..Len(rEnds) : rEnds[i] = rEnds[j] => i = j
    /\ \A i \in 1..Len(rCalls) : Ended(rCalls[i].span)
    /\ \A i \in 1..Len(stack) : ~Ended(stack[i].span)
    /\ stack = <<>> => \A sp \in 1..Len(rspans) : Ended(sp)
    /\ \A sp \in 1..Len(rspans) :
           (rspans[sp].parent # 0 /\ Ended(rspans[sp].parent))
               => (Ended(sp) /\ EndIndex(sp) < EndIndex(rspans[sp].parent))

\* an Update or Delete that returned early because its lookup failed, and a
\* Create or Update whose final GetByID returned, with all spans ended
C8_Witness ==
    /\ stack = <<>>
    /\ \E i, j \in 1..Len(rCalls) :
           /\ rCalls[i].op \in {"Update", "Delete"} /\ rCalls[i].failed
           /\ rCalls[j].op = "GetByID" /\ rCalls[j].nested /\ rCalls[j].failed
           /\ rspans[rCalls[j].span].parent = rCalls[i].span
           /\ Ended(rCalls[i].span) /\ Ended(rCalls[j].span)

\* ---- C9
\* the recordings the call with span sp made itself on instrument inst
OwnEvents(sp, inst) ==
    {i \in 1..Len(rEvents) : rEvents[i].by = sp /\ rEvents[i].inst = inst}

TaggedAsSpan(sp, i) ==
    /\ rEvents[i].operation = rspans[sp].operation
    /\ rEvents[i].table = rspans[sp].table

\* C9: every call of a UserRepository operation records exactly one
\* db.query.count increment and exactly one db.query.duration observation
\* tagged with that call's {operation, table}, and exactly one db.query.errors
\* increment tagged error.type=query_failed if and only if the call fails.
C9_OneCountOneDurationPerCall ==
    \A c \in 1..Len(rCalls) :
        LET sp == rCalls[c].span
        IN  /\ Cardinality(OwnEvents(sp, "db.query.count")) = 1
            /\ Cardinality(OwnEvents(sp, "db.query.duration")) = 1
            /\ \A i \in OwnEvents(sp, "db.query.count")
                        \cup OwnEvents(sp, "db.query.duration")
                        \cup OwnEvents(sp, "db.query.errors") : TaggedAsSpan(sp, i)
            /\ \A i \in OwnEvents(sp, "db.query.errors") :
                   rEvents[i].errorType = "query_failed"
            /\ Cardinality(OwnEvents(sp, "db.query.errors"))
                   = (IF rCalls[c].failed THEN 1 ELSE 0)

\* ---- C10
\* C10: when the creation of a metric instrument fails at start-up, the
\* failure is only logged as a warning, only that instrument is missing from
\* the DB, and NewConnectionWithDeps still succeeds so that main goes on to
\* serve.
C10_InstrumentFailureOnlyWarns ==
    (/\ stPc \in {"returned", "fatal", "serving"}
     /\ ~stEnv.openErr /\ ~stEnv.pingErr
     /\ stEnv.failing # {})
        => /\ stResult = "nil"
           /\ stPc # "fatal"
           /\ dbInstr = DBInstruments \ stEnv.failing
           /\ \E i \in 1..Len(stLog) : stLog[i] = "Warning: " \o CreateMetrics(stEnv.failing)


\* ---- C11
\* C11: a failure to construct a telemetry provider during InitTelemetry is
\* never fatal: main goes on to start and serve.
C11_ProviderFailureNotFatal ==
    (~tlEnv.resourceErr /\ \E sig \in SignalSet : tlCfg[sig] /\ sig \in tlEnv.failing)
        => tlPc # "fatal"

\* ---- C12
\* the signals whose callback the current Shutdown call has invoked
SignalsCalled == [i \in 1..Len(sdCalls) |-> sdCalls[i].sig]

\* C12: a Shutdown call invokes every registered callback exactly once, in
\* order, going on after a callback fails, and returns the combined error
\* exactly when at least one callback failed, nil otherwise.
C12_ShutdownCallsAllCombinesErrors ==
    /\ tlPc = "shutdown" => SignalsCalled = SubSeq(shutdownFuncs, 1, sdIdx - 1)
    /\ sdResult # "none" =>
           /\ SignalsCalled = shutdownFuncs
           /\ (sdResult # "nil") <=> (\E i \in 1..Len(sdCalls) : sdCalls[i].failed)
           /\ sdResult \in {"nil", "telemetry shutdown errors"}

\* a Shutdown that returned the combined error although the first of three
\* callbacks failed and the later ones were still called
C12_Witness ==
    /\ sdResult = "telemetry shutdown errors"
    /\ Len(sdCalls) = 3
    /\ sdCalls[1].failed
    /\ ~sdCalls[3].failed

\* ---- C13
\* C13: when InitTelemetry succeeds, each provider is non-nil exactly when its
\* flag is enabled, Shutdown calls back only the enabled signals, and with
\* all three flags disabled every provider is nil and Shutdown returns nil.
C13_ProvidersMatchFlags ==
    tlErr = "nil" =>
        /\ \A sig \in SignalSet : tlProv[sig] <=> tlCfg[sig]
        /\ \A i \in 1..Len(sdCalls) : tlCfg[sdCalls[i].sig]
        /\ {shutdownFuncs[i] : i \in 1..Len(shutdownFuncs)} = {sig \in SignalSet : tlCfg[sig]}
        /\ (\A sig \in SignalSet : ~tlCfg[sig]) =>
               /\ tlProv = NoProviders
               /\ sdCalls = <<>>
               /\ sdResult \in {"none", "nil"}

\* Shutdown has returned for a provider built with every flag disabled
C13_Witness ==
    /\ tlErr = "nil"
    /\ \A sig \in SignalSet : ~tlCfg[sig]
    /\ sdResult = "nil"


\* ---- C14
\* ticks the goroutine has taken from its ticker
TicksTaken == ticksFired - ticksDropped - (IF tickPending THEN 1 ELSE 0)

C15_AtMostOneCycleAfterCancel ==
    /\ monPc = "stopped" => \A c \in 1..Len(monCycles) : monCycles[c].logged
    /\ Cardinality({c \in 1..Len(monCycles) : monCycles[c].afterCancel}) <= 1

\* ---- C16
\* C16 (as claimed): in every completed cycle the metric recording and the
\* logged summary are derived from the same snapshot of the pool.
C16_OneSnapshotPerTick ==
    \A c \in 1..Len(monCycles) :
        monCycles[c].logged => monCycles[c].logStats = monCycles[c].metricStats

\* ---- C17
\* C17: each RecordConnectionMetrics call adds its snapshot's open count
\* under connection.type=active, subtracts its idle count under
\* connection.type=idle, and records nothing else.
C17_ActivePlusOpenIdleMinusIdle ==
    /\ Len(monEvents) = 2 * Len(monCycles)
    /\ \A c \in 1..Len(monCycles) :
           /\ monEvents[2 * c - 1] =
                  [type |-> "active", delta |-> monCycles[c].metricStats.open]
           /\ monEvents[2 * c] =
                  [type |-> "idle", delta |-> 0 - monCycles[c].metricStats.idle]

\* two ticks recorded from different snapshots of the pool
C17_Witness ==
    /\ Len(monCycles) >= 2
    /\ monCycles[1].metricStats # monCycles[2].metricStats
    /\ monCycles[2].metricStats.idle # InUse(monCycles[2].metricStats)


\* ---- C18
\* the remote records made for local record i
RemoteOf(i) == {j \in 1..Len(hkRemote) : hkRemote[j].from = i}

\* C18 (as claimed): once a hook with a remote logger is set up, every record
\* the service writes to the local stream, through the global logger or
\* through the router's request-logging middleware, is also emitted remotely.
C18_EveryRecordAlsoRemote ==
    \A i \in 1..Len(hkLocal) : hkLocal[i].configured => RemoteOf(i) # {}

\* ---- C19
\* C19: a hook built from a nil provider returns nil from Fire for every
\* entry and emits nothing, and the entry is still written locally.
C19_NilHookSilent ==
    \A i \in 1..Len(hkLocal) :
        \A h \in 1..Len(hkLocal[i].hooks) :
            hkLocal[i].hooks[h].logger = "nil" =>
                /\ hkLocal[i].errs[h] = "nil"
                /\ \A j \in RemoteOf(i) : hkRemote[j].hook # h

\* an entry with trace fields was logged through a hook without a logger
C19_Witness ==
    \E i \in 1..Len(hkLocal) :
        /\ "trace_id" \in DOMAIN hkLocal[i].data
        /\ \E h \in 1..Len(hkLocal[i].hooks) : hkLocal[i].hooks[h].logger = "nil"
        /\ RemoteOf(i) = {}

\* ---- C20
HasBothIDs(data) == "trace_id" \in DOMAIN data /\ "span_id" \in DOMAIN data

\* C20 (as claimed): every remote record of an entry that carries trace_id
\* and span_id is emitted with a span context built from those two values.
C20_ContextFromBothFields ==
    \A j \in 1..Len(hkRemote) :
        LET data == hkLocal[hkRemote[j].from].data
        IN  HasBothIDs(data) =>
                /\ hkRemote[j].record.ctx.valid
                /\ hkRemote[j].record.ctx.traceID = data["trace_id"].text
                /\ hkRemote[j].record.ctx.spanID = data["span_id"].text

\* C20 (amended): the record is emitted with a span context built from
\* trace_id and span_id exactly when both are strings of 32 and 16 lower-case
\* hex digits, not all zero; in every other case with the background
\* context.  A trace_id or span_id that is a string is copied as an
\* attribute of that name; one that is not a string is left out of the
\* record.
C20_ContextFromParsableIDs ==
    \A j \in 1..Len(hkRemote) :
        LET data == hkLocal[hkRemote[j].from].data
            rec == hkRemote[j].record
            parsable == /\ HasBothIDs(data)
                        /\ data["trace_id"].isString /\ data["span_id"].isString
                        /\ IsHexID(data["trace_id"].text, 32)
                        /\ IsHexID(data["span_id"].text, 16)
        IN  /\ rec.ctx.valid <=> parsable
            /\ parsable => /\ rec.ctx.traceID = data["trace_id"].text
                           /\ rec.ctx.spanID = data["span_id"].text
            /\ ~parsable => rec.ctx = NoSpanContext
            /\ \A k \in {"trace_id", "span_id"} :
                   /\ (k \in DOMAIN data /\ data[k].isString)
                          => <<k, data[k].text>> \in rec.attrs
                   /\ (k \notin DOMAIN data \/ ~data[k].isString)
                          => ~\E pair \in rec.attrs : pair[1] = k

\* a record was emitted without span context for an entry that carries both
\* fields, and another with it
C20_Witness ==
    /\ \E j \in 1..Len(hkRemote) :
           /\ HasBothIDs(hkLocal[hkRemote[j].from].data)
           /\ ~hkRemote[j].record.ctx.valid
    /\ \E j \in 1..Len(hkRemote) : hkRemote[j].record.ctx.valid

\* C21: the request-completion record of Logger.Middleware has severity
\* error for a status of 500 or more, warn for 400..499 and info otherwise,
\* whatever the status code and whatever level the logger is configured at;
\* the level only decides whether the record is written.
C21_SeverityByStatus ==
    \A i \in 1..Len(lmOut) :
        LET rec == lmOut[i]
        IN  /\ (rec.level = "error") <=> (rec.status_code >= 500)
            /\ (rec.level = "warn") <=> (rec.status_code >= 400 /\ rec.status_code =< 499)
            /\ (rec.level = "info") <=> (rec.status_code < 400)
            /\ rec.written <=> LevelRank[lmLevel] >= LevelRank[rec.level]

\* a logger configured at warn has written a warn record for a 404 and an
\* error record for a 503
C21_Witness ==
    /\ lmLevel = "warn"
    /\ \E i, j \in 1..Len(lmOut) :
           /\ lmOut[i].status_code = 404 /\ lmOut[i].level = "warn" /\ lmOut[i].written
           /\ lmOut[j].status_code = 503 /\ lmOut[j].level = "error" /\ lmOut[j].written

\* C22: GET /health, /ready and /metrics answer 200 exactly when Health()
\* returned no error and 503 otherwise; a 503 body reports the failure:
\* success=false with an error for /health and /ready, database.healthy=false
\* with a non-empty database.error for /metrics.
C22_HealthStatusFollowsHealth ==
    \A i \in 1..Len(hcResp) :
        LET resp == hcResp[i]
        IN  /\ (resp.status = 200) <=> (resp.healthErr = "<nil>")
            /\ resp.status \in {200, 503}
            /\ resp.status = 503 =>
                   IF resp.route = "/metrics"
                   THEN resp.body.healthy = FALSE /\ resp.body.error # ""
                   ELSE resp.body.success = FALSE /\ resp.body.error # ""

\* /metrics was probed with the connection closed and one of the health
\* endpoints with the database up
C22_Witness ==
    \E i, j \in 1..Len(hcResp) :
        /\ hcResp[i].route = "/metrics" /\ hcResp[i].healthErr = "sql: database is closed"
        /\ hcResp[j].route \in {"/health", "/ready"} /\ hcResp[j].status = 200

\* C23: once the downstream handlers have run, the response of a request
\* with an attached error is the one ErrorHandler chooses from the type of
\* the last error: 400 for a bind or a public error, 500 for any other type.
C23_ResponseFromLastError ==
    \A r \in Reqs :
        (pc[r] \in {"post", "defer", "done"} /\ ~panicked[r] /\ Len(cErrors[r]) > 0) =>
            LET last == cErrors[r][Len(cErrors[r])]
            IN  /\ last \in {"bind", "public"} => writer[r].status = 400
                /\ last \notin {"bind", "public"} => writer[r].status = 500

\* C24: the process-wide logger is initialised once: under any sequence or
\* interleaving of GetLogger, InitGlobalLogger and SetupOtelHook calls every
\* GetLogger call returns the same non-nil Logger.
C24_GetLoggerSameInstance ==
    /\ 0 \notin glReturned
    /\ Cardinality(glReturned) =< 1

\* number of recordings of a call on one instrument
CountOn(call, inst) ==
    Cardinality({i \in 1..Len(call.events) : call.events[i].inst = inst})

\* C25: with some or all instruments nil, RecordQueryMetrics and
\* RecordConnectionMetrics never use a nil instrument, and every non-nil
\* instrument still gets its recording: duration and count once per call,
\* the error counter once exactly when the error passed is non-nil, the
\* connection counter its two additions.
C25_NilInstrumentsSkipped ==
    \A k \in 1..Len(rcLog) :
        LET call == rcLog[k]
        IN  IF call.fn = "RecordQueryMetrics"
            THEN /\ \A i \in 1..Len(call.events) : call.events[i].inst \in dbInstr
                 /\ \A inst \in {"db.query.duration", "db.query.count"} :
                        CountOn(call, inst) = (IF inst \in dbInstr THEN 1 ELSE 0)
                 /\ CountOn(call, "db.query.errors") =
                        (IF call.err /\ "db.query.errors" \in dbInstr THEN 1 ELSE 0)
            ELSE /\ Len(call.events) =
                        (IF "db.connections.active" \in dbInstr THEN 2 ELSE 0)
                 /\ \A i \in 1..Len(call.events) :
                        call.events[i].type \in {"active", "idle"}

\* a DB whose only instrument is the query counter has recorded a failed
\* query on it alone and has skipped the connection counter
C25_Witness ==
    /\ dbInstr = {"db.query.count"}
    /\ \E k, j \in 1..Len(rcLog) :
           /\ rcLog[k].fn = "RecordQueryMetrics" /\ rcLog[k].err
           /\ Len(rcLog[k].events) = 1
           /\ rcLog[j].fn = "RecordConnectionMetrics" /\ rcLog[j].events = <<>>

\* C26: at shutdown the monitor's context is cancelled before the database
\* is closed, and no snapshot cycle of the monitor (RecordConnectionMetrics
\* or GetConnectionStats) runs after db.Close() has been called.
C26_NoCycleAfterClose ==
    mainPc \in {"closed", "exited"} =>
        /\ monCtxDone
        /\ Len(monCycles) = atClose.records
        /\ CyclesLogged = atClose.stats

\* C27: InitTelemetry is all-or-nothing: when it returns an error, no
\* provider built earlier in the call is left registered as a global
\* provider, and none is left running with its shutdown callback not invoked.
C27_InitAllOrNothing ==
    (tlPc \in {"returned", "fatal"} /\ tlErr \notin {"nil", "pending"}) =>
        /\ RegisteredGlobal = {}
        /\ \A sig \in SignalSet :
               tlProv[sig] => \E i \in 1..Len(sdCalls) : sdCalls[i].sig = sig

\* the calls of userRepo.Create made with email e, in the order they ran
ReachedCreate(e) == {i \in 1..Len(crCreates) : crCreates[i].email = e}

\* C28: whatever the interleaving of concurrent CreateUser requests with
\* the same email, at most one of them reaches userRepo.Create and every
\* other one is answered 409 Conflict and creates nothing: no request calls
\* userRepo.Create for an email another request has inserted, no email is
\* inserted twice, and a request that did not create the user is answered
\* 409 once the user exists.
C28_OneCreatePerEmail ==
    \A e \in Emails :
        /\ \A i, j \in ReachedCreate(e) : i < j => ~crCreates[i].inserted
        /\ crRows[e] =< 1
        /\ Cardinality({r \in Creators : crEmail[r] = e /\ crResp[r] = 201}) =< 1

\* the db.query.errors increments made by the call that owns span sp
ErrorIncrements(sp) ==
    {i \in 1..Len(rEvents) : rEvents[i].inst = "db.query.errors" /\ rEvents[i].by = sp}

\* C29: for every UserRepository operation the db.query.errors counter is
\* incremented for a call exactly when the call's span is marked
\* db.query.success=false; a call whose span is marked success=true, a
\* GetByID that finds no row included, never increments it.
C29_ErrorCountIffSpanFailed ==
    \A c \in 1..Len(rCalls) :
        LET sp == rCalls[c].span
        IN  /\ (ErrorIncrements(sp) # {}) <=> (rspans[sp].success = FALSE)
            /\ rspans[sp].success = TRUE => ErrorIncrements(sp) = {}

\* the page the request asks for, as a number: 1 when the parameter is
\* absent, not a number, or below 1
RequestedPage ==
    IF guPage.kind = "number" /\ guPage.value >= 1 THEN guPage.value ELSE 1

\* C30: for every page and limit parameter (missing, non-numeric, zero,
\* negative or arbitrarily large) GetUsers calls the repository with a limit
\* in 1..100 and a non-negative offset equal to (page-1)*limit for a
\* page >= 1.
C30_LimitAndOffsetInRange ==
    guCall.called =>
        /\ guCall.limit \in 1..100
        /\ guCall.offset >= 0
        /\ \E page \in 1..RequestedPage : guCall.offset = (page - 1) * guCall.limit
====
